---------------------------- MODULE Spec2Model ----------------------------
(***************************************************************************)
(* Model of the energy-usage ELT job (bi_energy_usage_app).                *)
(*                                                                         *)
(* The batch driver process_files() validates the configuration, ensures   *)
(* the working directories exist and calls process_file() once per listed  *)
(* filename; process_file() builds the URL and paths, parses the year and  *)
(* runs download -> transform -> upload raw -> upload processed inside a    *)
(* try/except, followed by the optional local clean-up.                    *)
(*                                                                         *)
(* Python strings are modelled as sequences of one-character strings, so   *)
(* that lower(), replace(), splitext(), split() and int() are computed the *)
(* way the interpreter computes them.                                      *)
(***************************************************************************)
EXTENDS Integers, Sequences, FiniteSets, TLC

(***************************************************************************)
(* Bounds of the model.                                                    *)
(***************************************************************************)
\* most filenames listed in the two manifests of one run, taken together
MaxEntries == 3

(***************************************************************************)
(* Python string primitives.                                               *)
(***************************************************************************)
UpperLetters == <<"A", "B", "C", "D", "E", "F", "G", "H", "I", "J", "K", "L", "M",
                  "N", "O", "P", "Q", "R", "S", "T", "U", "V", "W", "X", "Y", "Z">>
LowerLetters == <<"a", "b", "c", "d", "e", "f", "g", "h", "i", "j", "k", "l", "m",
                  "n", "o", "p", "q", "r", "s", "t", "u", "v", "w", "x", "y", "z">>
Digits == <<"0", "1", "2", "3", "4", "5", "6", "7", "8", "9">>
Whitespace == {" ", "\t", "\n", "\r"}

IndexIn(c, letters) ==
    IF \E i \in 1..Len(letters) : letters[i] = c
    THEN CHOOSE i \in 1..Len(letters) : letters[i] = c
    ELSE 0

\* str.lower(), one character at a time
LowerChar(c) ==
    IF IndexIn(c, UpperLetters) > 0 THEN LowerLetters[IndexIn(c, UpperLetters)] ELSE c
Lower(s) == [i \in 1..Len(s) |-> LowerChar(s[i])]

\* str.upper(), one character at a time
UpperChar(c) ==
    IF IndexIn(c, LowerLetters) > 0 THEN UpperLetters[IndexIn(c, LowerLetters)] ELSE c
Upper(s) == [i \in 1..Len(s) |-> UpperChar(s[i])]

StartsWith(s, p) == Len(p) <= Len(s) /\ SubSeq(s, 1, Len(p)) = p

\* str.replace(old, new): non-overlapping occurrences, left to right
RECURSIVE Replace(_, _, _)
Replace(s, old, new) ==
    IF Len(s) = 0 THEN <<>>
    ELSE IF Len(old) > 0 /\ StartsWith(s, old)
         THEN new \o Replace(SubSeq(s, Len(old) + 1, Len(s)), old, new)
         ELSE <<s[1]>> \o Replace(Tail(s), old, new)

\* str.rfind(c): 1-based position of the last c, 0 when there is none
RFind(s, c) ==
    IF \E i \in 1..Len(s) : s[i] = c
    THEN CHOOSE i \in 1..Len(s) : s[i] = c /\ \A j \in (i + 1)..Len(s) : s[j] # c
    ELSE 0

\* os.path.splitext(p)[0]: the extension starts at the last dot of the last
\* path component, unless that component has nothing but dots before it
SplitExtRoot(p) ==
    LET sepIndex == RFind(p, "/")
        dotIndex == RFind(p, ".")
    IN  IF dotIndex > sepIndex
           /\ \E k \in (sepIndex + 1)..(dotIndex - 1) : p[k] # "."
        THEN SubSeq(p, 1, dotIndex - 1)
        ELSE p

\* str.split(sep) for a one-character separator: always at least one piece
RECURSIVE Split(_, _)
Split(s, sep) ==
    IF \E i \in 1..Len(s) : s[i] = sep
    THEN LET i == CHOOSE k \in 1..Len(s) : s[k] = sep /\ \A j \in 1..(k - 1) : s[j] # sep
         IN  <<SubSeq(s, 1, i - 1)>> \o Split(SubSeq(s, i + 1, Len(s)), sep)
    ELSE <<s>>

\* sep.join(list)
RECURSIVE Join(_, _)
Join(list, sep) ==
    IF Len(list) = 0 THEN <<>>
    ELSE IF Len(list) = 1 THEN list[1]
    ELSE list[1] \o <<sep>> \o Join(Tail(list), sep)

\* str.strip(): leading and trailing whitespace removed
RECURSIVE Strip(_)
Strip(s) ==
    IF Len(s) = 0 THEN s
    ELSE IF s[1] \in Whitespace THEN Strip(Tail(s))
    ELSE IF s[Len(s)] \in Whitespace THEN Strip(SubSeq(s, 1, Len(s) - 1))
    ELSE s

IsDigit(c) == IndexIn(c, Digits) > 0

RECURSIVE DigitsValue(_)
DigitsValue(ds) ==
    IF Len(ds) = 0 THEN 0
    ELSE 10 * DigitsValue(SubSeq(ds, 1, Len(ds) - 1)) + (IndexIn(ds[Len(ds)], Digits) - 1)

\* int(x) for a str: surrounding whitespace, one optional sign, decimal digits
\* with single underscores between digits; anything else raises ValueError
PyInt(x) ==
    LET t == Strip(x)
        signed == Len(t) > 0 /\ t[1] \in {"+", "-"}
        body == IF signed THEN Tail(t) ELSE t
        wellFormed ==
            /\ Len(body) > 0
            /\ \A i \in 1..Len(body) :
                  \/ IsDigit(body[i])
                  \/ /\ body[i] = "_"
                     /\ 1 < i /\ i < Len(body)
                     /\ IsDigit(body[i - 1]) /\ IsDigit(body[i + 1])
        magnitude == DigitsValue(SelectSeq(body, IsDigit))
    IN  IF wellFormed
        THEN [ok |-> TRUE, value |-> IF signed /\ t[1] = "-" THEN 0 - magnitude ELSE magnitude]
        ELSE [ok |-> FALSE, value |-> 0]


(***************************************************************************)
(* String constants of the program and of the modelled environment.        *)
(***************************************************************************)
Str_gz == <<".", "g", "z">>
Str_gas == <<"g", "a", "s">>
Str_electricity == <<"e", "l", "e", "c", "t", "r", "i", "c", "i", "t", "y">>
Str_raw == <<"r", "a", "w">>
Str_processed == <<"p", "r", "o", "c", "e", "s", "s", "e", "d">>
Str_data == <<"d", "a", "t", "a">>
Str_Y == <<"Y">>

\* filenames that the manifests of the model are drawn from
Gas2020_csv_gz == <<"G", "a", "s", "2", "0", "2", "0", ".", "c", "s", "v", ".", "g", "z">>
Electricity1999_csv_gz == <<"E", "l", "e", "c", "t", "r", "i", "c", "i", "t", "y",
                            "1", "9", "9", "9", ".", "c", "s", "v", ".", "g", "z">>
Badname_csv_gz == <<"B", "a", "d", "n", "a", "m", "e", ".", "c", "s", "v", ".", "g", "z">>
GasFilenamePool == {Gas2020_csv_gz, Badname_csv_gz}
ElectricityFilenamePool == {Electricity1999_csv_gz, Gas2020_csv_gz}

\* filenames of single calls are put together from a type token, a year token
\* and an extension
TypeTokens ==
    { <<>>, Str_gas, <<"G", "a", "s">>, <<"G", "A", "S">>, Str_electricity,
      <<"E", "l", "e", "c", "t", "r", "i", "c", "i", "t", "y">>,
      Str_gas \o Str_electricity,
      <<"B", "a", "d", "n", "a", "m", "e">> }
YearTokens ==
    { <<"2", "0", "2", "0">>, <<"1", "9", "9", "9">>, <<"0", "0", "7">>, <<>>,
      <<"-", "5">>, <<"+", "5">>, <<" ", "1", "2", " ">>, <<"1", "_", "0">>,
      <<"2", "0", "x">> }
Extensions ==
    { <<".", "c", "s", "v", ".", "g", "z">>, <<".", "C", "S", "V", ".", "G", "Z">>,
      <<".", "c", "s", "v">>, <<>>, <<".", "g", "z">>,
      <<".", "t", "x", "t", ".", "g", "z">>, <<".", "c", "s", "v", ".", "g", "z", ".", "g", "z">> }

\* every filename that a manifest or a call of the model can hold
FilenamePool ==
    GasFilenamePool \cup ElectricityFilenamePool
        \cup {t \o y \o e : t \in TypeTokens, y \in YearTokens, e \in Extensions}

GasRootUrl == <<"h", "t", "t", "p", ":", "/", "/", "x", ".", "t", "e", "s", "t", "/", "g", "a", "s">>
ElectricityRootUrl == <<"h", "t", "t", "p", ":", "/", "/", "x", ".", "t", "e", "s", "t", "/", "e", "l", "/">>

\* os.getcwd() of the container
Cwd == <<"/", "a", "p", "p">>

\* values of CRUK_DELETE_DATA_FILES
DeleteDataFilesValues == {<<"Y">>, <<"y">>, <<"N">>}

\* all lists of at most n elements of S
ListsUpTo(S, n) == UNION {[1..k -> S] : k \in 0..n}

(***************************************************************************)
(* Pure parts of process_files() and process_file().                       *)
(***************************************************************************)
\* os.path.join(a, b) on POSIX
PathJoin(a, b) ==
    IF StartsWith(b, <<"/">>) THEN b
    ELSE IF Len(a) = 0 \/ a[Len(a)] = "/" THEN a \o b
    ELSE a \o <<"/">> \o b

\* os.path.basename(p)
Basename(p) == SubSeq(p, RFind(p, "/") + 1, Len(p))

working_directory == PathJoin(Cwd, Str_data)
raw_files_directory == PathJoin(working_directory, Str_raw)
processed_files_directory == PathJoin(working_directory, Str_processed)
WorkingDirectories == {working_directory, raw_files_directory, processed_files_directory}

\* variant: the slash is added whatever the root URL ends with
BuildUrlAlwaysSlash(root_url, filename) == root_url \o <<"/">> \o filename

\* file_url: the root URL, a '/' unless it already ends with one, the filename
BuildUrl(root_url, filename) ==
    IF root_url[Len(root_url)] # "/"
    THEN root_url \o <<"/">> \o filename
    ELSE root_url \o filename

RawFilePath(filename) == PathJoin(raw_files_directory, filename)
ProcessedFilePath(filename) == PathJoin(processed_files_directory, filename)

\* variant: the key is made of the local path, not of its last component
RawObjectKeyOfPath(raw_file_path) == Str_raw \o raw_file_path

\* the S3 object keys handed to try_upload_file
RawObjectKey(raw_file_path) == Str_raw \o <<"/">> \o Basename(raw_file_path)
ProcessedObjectKey(processed_file_path) ==
    Str_processed \o <<"/">> \o Basename(processed_file_path)

\* variant: the filename is not lower-cased first
ExtractYearCaseSensitive(filename) ==
    LET x1 == Replace(filename, Str_gz, <<>>)
        x2 == SplitExtRoot(x1)
        x3 == Replace(Replace(x2, Str_gas, <<>>), Str_electricity, <<>>)
    IN  PyInt(x3)

\* the year of a filename: int() of what is left of the lower-cased name once
\* every '.gz', the extension, every 'gas' and every 'electricity' are removed
ExtractYear(filename) ==
    LET x1 == Replace(Lower(filename), Str_gz, <<>>)
        x2 == SplitExtRoot(x1)
        x3 == Replace(Replace(x2, Str_gas, <<>>), Str_electricity, <<>>)
    IN  PyInt(x3)

\* extract_year(filename) for each filename of the model, computed once
YearOfFilename == [filename \in FilenamePool |-> ExtractYear(filename)]

\* variant: the flag is compared without upper()
CleanupEnabledCaseSensitive(delete_data_files) == delete_data_files = Str_Y

\* variant: any value that is set enables the clean-up
CleanupEnabledWhenSet(delete_data_files) == Len(delete_data_files) > 0

\* cleanup_enabled
CleanupEnabled(delete_data_files) == Upper(delete_data_files) = Str_Y

(***************************************************************************)
(* State.                                                                  *)
(***************************************************************************)
VARIABLES
    env,                    \* os.environ: the variables that are read
    pc,                     \* position of the single thread of control
    gas_filenames,          \* process_files(): the split gas manifest
    electricity_filenames,  \* process_files(): the split electricity manifest
    loop_index,             \* 1-based position of the running for-loop
    frame,                  \* process_file(): arguments and locals of the call
    directories,            \* the local directories that exist
    files,                  \* local files: path -> content
    bucket,                 \* S3 objects: key -> content
    exception,              \* the exception being raised, "none" otherwise
    steps,                  \* what the running process_file call has done so far
    calls,                  \* the process_file invocations made, in order
    results,                \* how each returned process_file call ended
    effects                 \* kinds of side effect performed by this run

\* try_process_file() followed row by row
VARIABLES
    reader,                 \* csv.DictReader on the raw file: field names, lines, position
    writer,                 \* the lines written to the processed file so far
    row_count               \* try_process_file(): the rows transformed so far

\* load_snowflake()
VARIABLES
    statements,             \* the SQL statements executed by the running call
    table,                  \* BEIS_LOAD.ENERGY_USAGE: copies held of each loaded file
    load_metadata,          \* the files COPY INTO has recorded as loaded into the table
    connections             \* the connections and cursors that are open

\* several batch runs at once
VARIABLES
    shared_directory,       \* do the runs have the same current directory?
    runs,                   \* per run: position, entry, exception, outcome per entry
    disks                   \* per working directory: path -> content

\* main() and the helpers it uses, each followed on its own
VARIABLES
    obj,                    \* safe_json: the value handed to the function, changed in place
    max_length,             \* safe_json: the max_length argument
    returned,               \* what the function returned
    log,                    \* the messages handed to logging, in order
    exit_code               \* main(): the exit status of the process

transformVars == <<reader, writer, row_count>>
warehouseVars == <<statements, table, load_metadata, connections>>
runsVars == <<shared_directory, runs, disks>>
utilityVars == <<obj, max_length, returned, log, exit_code>>

\* the variables that a batch run leaves alone
nonBatchVars == <<transformVars, warehouseVars, runsVars, utilityVars>>

vars == <<env, pc, gas_filenames, electricity_filenames, loop_index, frame,
          directories, files, bucket, exception, steps, calls, results, effects,
          nonBatchVars>>

NoFrame == [energy_type |-> "", root_url |-> <<>>, filename |-> <<>>, file_url |-> <<>>,
            raw_file_path |-> <<>>, processed_file_path |-> <<>>, year |-> 0]

\* file contents: what was downloaded from which URL, whether all of it was
\* written, and for a processed file the two constants injected in every row
RawContent(file_url, whole) ==
    [kind |-> "raw", url |-> file_url, complete |-> whole, energy_type |-> "", year |-> 0]
ProcessedContent(raw, energy_type, year, whole) ==
    [kind |-> "processed", url |-> raw.url, complete |-> raw.complete /\ whole,
     energy_type |-> energy_type, year |-> year]
\* something left behind by an earlier run
StaleContent == [kind |-> "stale", url |-> <<>>, complete |-> TRUE, energy_type |-> "", year |-> 0]

EmptyMap == [k \in {} |-> StaleContent]
\* the map m with key k bound to value v / with key k removed
Put(m, k, v) == [x \in (DOMAIN m) \cup {k} |-> IF x = k THEN v ELSE m[x]]
Remove(m, k) == [x \in (DOMAIN m) \ {k} |-> m[x]]

\* the objects an earlier run left in the bucket
StaleBucket ==
    Put(Put(EmptyMap, RawObjectKey(RawFilePath(Gas2020_csv_gz)), StaleContent),
        ProcessedObjectKey(ProcessedFilePath(Gas2020_csv_gz)), StaleContent)

\* try_process_file is not running on its own
TransformIdle ==
    /\ reader = [fieldnames |-> <<>>, lines |-> <<>>, line_num |-> 0]
    /\ writer = <<>>
    /\ row_count = 0

\* no warehouse is looked at
WarehouseIdle ==
    /\ statements = <<>>
    /\ table = <<>>
    /\ load_metadata = {}
    /\ connections = {}

\* no other batch run is going on
RunsIdle ==
    /\ shared_directory = FALSE
    /\ runs = <<>>
    /\ disks = <<>>

\* neither main() nor a helper is followed on its own
UtilityIdle ==
    /\ obj = <<>>
    /\ max_length = 0
    /\ returned = <<>>
    /\ log = <<>>
    /\ exit_code = "running"

Init ==
    /\ \E gas_root \in {<<>>, GasRootUrl},
          electricity_root \in {<<>>, ElectricityRootUrl},
          gas_list \in ListsUpTo(GasFilenamePool, MaxEntries),
          delete_data_files \in DeleteDataFilesValues :
          \E electricity_list \in ListsUpTo(ElectricityFilenamePool,
                                             MaxEntries - Len(gas_list)) :
            env = [DATA_SOURCE_GAS_ROOT_URL |-> gas_root,
                   DATA_SOURCE_GAS_FILENAMES |-> Join(gas_list, "|"),
                   DATA_SOURCE_ELECTRICITY_ROOT_URL |-> electricity_root,
                   DATA_SOURCE_ELECTRICITY_FILENAMES |-> Join(electricity_list, "|"),
                   DELETE_DATA_FILES |-> delete_data_files]
    \* a fresh container; the bucket outlives the runs
    /\ directories = {}
    /\ files = EmptyMap
    /\ bucket = StaleBucket
    /\ pc = "check_gas"
    /\ gas_filenames = <<>>
    /\ electricity_filenames = <<>>
    /\ loop_index = 0
    /\ frame = NoFrame
    /\ exception = "none"
    /\ steps = <<>>
    /\ calls = <<>>
    /\ results = <<>>
    /\ effects = {}
    /\ TransformIdle
    /\ WarehouseIdle
    /\ RunsIdle
    /\ UtilityIdle

(***************************************************************************)
(* process_files(): configuration checks and working directories.          *)
(***************************************************************************)
\* the ValueError of the gas configuration check, "none" when it passes
GasConfigurationError(e) ==
    IF Len(e.DATA_SOURCE_GAS_ROOT_URL) = 0 THEN "ValueError: DATA_SOURCE_GAS_ROOT_URL"
    ELSE IF Len(e.DATA_SOURCE_GAS_FILENAMES) = 0 THEN "ValueError: DATA_SOURCE_GAS_FILENAMES"
    ELSE "none"

\* variant: the electricity configuration is not checked before the loops
ElectricityConfigurationUnchecked(e) == "none"

\* the ValueError of the electricity configuration check, "none" when it passes
ElectricityConfigurationError(e) ==
    IF Len(e.DATA_SOURCE_ELECTRICITY_ROOT_URL) = 0
    THEN "ValueError: DATA_SOURCE_ELECTRICITY_ROOT_URL"
    ELSE IF Len(e.DATA_SOURCE_ELECTRICITY_FILENAMES) = 0
    THEN "ValueError: DATA_SOURCE_ELECTRICITY_FILENAMES"
    ELSE "none"

\* an exception that nothing catches leaves process_files()
Raise(e) ==
    /\ exception' = e
    /\ pc' = "raised"

CheckGasConfiguration ==
    /\ pc = "check_gas"
    /\ IF GasConfigurationError(env) # "none"
       THEN /\ Raise(GasConfigurationError(env))
            /\ UNCHANGED gas_filenames
       ELSE /\ gas_filenames' = Split(env.DATA_SOURCE_GAS_FILENAMES, "|")
            /\ pc' = "check_electricity"
            /\ UNCHANGED exception
    /\ UNCHANGED <<nonBatchVars, env, electricity_filenames, loop_index, frame, directories, files,
                   bucket, steps, calls, results, effects>>

CheckElectricityConfiguration ==
    /\ pc = "check_electricity"
    /\ IF ElectricityConfigurationError(env) # "none"
       THEN /\ Raise(ElectricityConfigurationError(env))
            /\ UNCHANGED electricity_filenames
       ELSE /\ electricity_filenames' = Split(env.DATA_SOURCE_ELECTRICITY_FILENAMES, "|")
            /\ pc' = "ensure_directories"
            /\ UNCHANGED exception
    /\ UNCHANGED <<nonBatchVars, env, gas_filenames, loop_index, frame, directories, files,
                   bucket, steps, calls, results, effects>>

\* os.mkdir for each of the three directories that does not exist yet
EnsureWorkingDirectories ==
    /\ pc = "ensure_directories"
    /\ directories' = directories \cup WorkingDirectories
    /\ effects' = IF WorkingDirectories \subseteq directories
                  THEN effects ELSE effects \cup {"mkdir"}
    /\ pc' = "gas_loop"
    /\ loop_index' = 1
    /\ UNCHANGED <<nonBatchVars, env, gas_filenames, electricity_filenames, frame, files, bucket,
                   exception, steps, calls, results>>

(***************************************************************************)
(* process_file(): one manifest entry.                                     *)
(***************************************************************************)
\* the statements of the try block, in program order
TrySteps == <<"download", "transform", "upload_raw", "upload_processed">>

\* variant: a try block that ends after the download
InTryBlockDownloadOnly(step) == step = "download"

\* variant: the year is parsed inside the try block
InTryBlockWithYear(step) ==
    step = "year" \/ \E i \in 1..Len(TrySteps) : TrySteps[i] = step

\* is the statement inside the try/except of process_file?
InTryBlock(step) == \E i \in 1..Len(TrySteps) : TrySteps[i] = step

\* variant: the raw file is uploaded before it is transformed
NextStepUploadFirst(step) ==
    CASE step = "year" -> "download"
      [] step = "download" -> "upload_raw"
      [] step = "upload_raw" -> "transform"
      [] step = "transform" -> "upload_processed"
      [] step = "upload_processed" -> "cleanup_check"

\* where control goes when the statement returns normally
NextStep(step) ==
    CASE step = "year" -> "download"
      [] step = "download" -> "transform"
      [] step = "transform" -> "upload_raw"
      [] step = "upload_raw" -> "upload_processed"
      [] step = "upload_processed" -> "cleanup_check"

\* variant: every statement of process_file is inside the try block
RaiseFromAlwaysCaught(step, e) ==
    /\ exception' = e
    /\ pc' = "except"

\* where control goes when the statement raises: to the except clause from
\* inside the try block, out of process_file and process_files from elsewhere
RaiseFrom(step, e) ==
    /\ exception' = e
    /\ pc' = IF InTryBlock(step) THEN "except" ELSE "raised"

\* the running call has executed the statement / executed it without a raise
Attempted(step) == \E i \in 1..Len(steps) : steps[i][1] = step
Succeeded(step) == \E i \in 1..Len(steps) : steps[i] = <<step, "ok">>

\* the call: URL, paths, year and the first log entry
ProcessFileEnter(energy_type, root_url, filename) ==
    LET year == YearOfFilename[filename]
        args == [NoFrame EXCEPT !.energy_type = energy_type, !.root_url = root_url,
                                !.filename = filename]
    IN  /\ calls' = Append(calls, [energy_type |-> energy_type, root_url |-> root_url,
                                   filename |-> filename])
        /\ IF Len(root_url) = 0
           THEN /\ frame' = args
                /\ steps' = <<<<"url", "error">>>>
                /\ RaiseFrom("url", "IndexError")
           ELSE IF ~year.ok
           THEN /\ frame' = [args EXCEPT !.file_url = BuildUrl(root_url, filename),
                                         !.raw_file_path = RawFilePath(filename),
                                         !.processed_file_path = ProcessedFilePath(filename)]
                /\ steps' = <<<<"year", "error">>>>
                /\ RaiseFrom("year", "ValueError: int")
           ELSE /\ frame' = [energy_type |-> energy_type, root_url |-> root_url,
                             filename |-> filename,
                             file_url |-> BuildUrl(root_url, filename),
                             raw_file_path |-> RawFilePath(filename),
                             processed_file_path |-> ProcessedFilePath(filename),
                             year |-> year.value]
                /\ steps' = <<<<"year", "ok">>>>
                /\ pc' = NextStep("year")
                /\ UNCHANGED exception
        /\ UNCHANGED <<nonBatchVars, env, gas_filenames, electricity_filenames, loop_index,
                       directories, files, bucket, results, effects>>

\* outcomes of a step that writes a local file: it returns, it raises before
\* the output file is opened, or it raises after the file was opened for writing
WriteOutcomes == {"ok", "error_before_write", "error_mid_write"}

\* variant: an error of the download is logged and the call goes on
TryDownloadFileNoRaise ==
    /\ pc = "download"
    /\ \E outcome \in WriteOutcomes :
          /\ files' = IF outcome = "error_before_write" THEN files
                      ELSE Put(files, frame.raw_file_path,
                               RawContent(frame.file_url, outcome = "ok"))
          /\ steps' = Append(steps, <<"download", outcome>>)
    /\ pc' = NextStep("download")
    /\ effects' = effects \cup {"download"}
    /\ UNCHANGED <<nonBatchVars, env, gas_filenames, electricity_filenames, loop_index, frame,
                   directories, bucket, exception, calls, results>>

\* file_downloader.download_file: raise_for_status(), then the chunks are
\* written to the file opened with 'wb'
TryDownloadFile ==
    /\ pc = "download"
    /\ \E outcome \in WriteOutcomes :
          /\ files' = IF outcome = "error_before_write" THEN files
                      ELSE Put(files, frame.raw_file_path,
                               RawContent(frame.file_url, outcome = "ok"))
          /\ steps' = Append(steps, <<"download", outcome>>)
          /\ IF outcome = "ok"
             THEN pc' = NextStep("download") /\ UNCHANGED exception
             ELSE RaiseFrom("download", "TransferError")
    /\ effects' = effects \cup {"download"}
    /\ UNCHANGED <<nonBatchVars, env, gas_filenames, electricity_filenames, loop_index, frame,
                   directories, bucket, calls, results>>

\* try_process_file: the raw file is read row by row into the processed file
\* opened with 'wt'
TryProcessFile ==
    /\ pc = "transform"
    /\ \E outcome \in WriteOutcomes :
          \* gzip.open of a raw file that does not exist raises
          /\ frame.raw_file_path \notin DOMAIN files => outcome = "error_before_write"
          /\ files' = IF outcome = "error_before_write" THEN files
                      ELSE Put(files, frame.processed_file_path,
                               ProcessedContent(files[frame.raw_file_path],
                                                frame.energy_type, frame.year,
                                                outcome = "ok"))
          /\ steps' = Append(steps, <<"transform", outcome>>)
          /\ IF outcome = "ok"
             THEN pc' = NextStep("transform") /\ UNCHANGED exception
             ELSE RaiseFrom("transform", "TransformError")
    /\ effects' = effects \cup {"transform"}
    /\ UNCHANGED <<nonBatchVars, env, gas_filenames, electricity_filenames, loop_index, frame,
                   directories, bucket, calls, results>>

\* variant: an object that exists is not overwritten
TryUploadFileCreateOnly(step, local_file_path, s3_object_key) ==
    /\ pc = step
    /\ \E outcome \in {"ok", "error"} :
          /\ local_file_path \notin DOMAIN files => outcome = "error"
          /\ bucket' = IF outcome = "ok" /\ s3_object_key \notin DOMAIN bucket
                       THEN Put(bucket, s3_object_key, files[local_file_path])
                       ELSE bucket
          /\ steps' = Append(steps, <<step, outcome>>)
          /\ IF outcome = "ok"
             THEN pc' = NextStep(step) /\ UNCHANGED exception
             ELSE RaiseFrom(step, "StorageError")
    /\ effects' = effects \cup {"upload"}
    /\ UNCHANGED <<nonBatchVars, env, gas_filenames, electricity_filenames, loop_index, frame,
                   directories, files, calls, results>>

\* try_upload_file -> s3_utilities.upload_file: the object is created or
\* overwritten with the content of the local file, or the call raises
TryUploadFile(step, local_file_path, s3_object_key) ==
    /\ pc = step
    /\ \E outcome \in {"ok", "error"} :
          \* a local file that does not exist cannot be uploaded
          /\ local_file_path \notin DOMAIN files => outcome = "error"
          /\ bucket' = IF outcome = "ok"
                       THEN Put(bucket, s3_object_key, files[local_file_path])
                       ELSE bucket
          /\ steps' = Append(steps, <<step, outcome>>)
          /\ IF outcome = "ok"
             THEN pc' = NextStep(step) /\ UNCHANGED exception
             ELSE RaiseFrom(step, "StorageError")
    /\ effects' = effects \cup {"upload"}
    /\ UNCHANGED <<nonBatchVars, env, gas_filenames, electricity_filenames, loop_index, frame,
                   directories, files, calls, results>>

TryUploadRawFile ==
    TryUploadFile("upload_raw", frame.raw_file_path, RawObjectKey(frame.raw_file_path))

TryUploadProcessedFile ==
    TryUploadFile("upload_processed", frame.processed_file_path,
                  ProcessedObjectKey(frame.processed_file_path))

\* variant: the handler deletes the raw object of the failed entry
ExceptExceptionRollback ==
    /\ pc = "except"
    /\ exception' = "none"
    /\ steps' = Append(steps, <<"except", exception>>)
    /\ pc' = "cleanup_check"
    /\ bucket' = Remove(bucket, RawObjectKey(frame.raw_file_path))
    /\ UNCHANGED <<nonBatchVars, env, gas_filenames, electricity_filenames, loop_index, frame,
                   directories, files, calls, results, effects>>

\* variant: the handler runs the try block of the failed entry a second time
ExceptExceptionRetry ==
    /\ pc = "except"
    /\ exception' = "none"
    /\ steps' = Append(steps, <<"except", exception>>)
    /\ pc' = IF Len(steps) < 4 THEN "download" ELSE "cleanup_check"
    /\ UNCHANGED <<nonBatchVars, env, gas_filenames, electricity_filenames, loop_index, frame,
                   directories, files, bucket, calls, results, effects>>

\* variant: the handler logs the error and raises it again
ExceptExceptionReraise ==
    /\ pc = "except"
    /\ steps' = Append(steps, <<"except", exception>>)
    /\ pc' = "raised"
    /\ UNCHANGED <<nonBatchVars, env, gas_filenames, electricity_filenames, loop_index, frame,
                   directories, files, bucket, exception, calls, results, effects>>

\* except Exception: the error is logged and the call goes on after the try
ExceptException ==
    /\ pc = "except"
    /\ exception' = "none"
    /\ steps' = Append(steps, <<"except", exception>>)
    /\ pc' = "cleanup_check"
    /\ UNCHANGED <<nonBatchVars, env, gas_filenames, electricity_filenames, loop_index, frame,
                   directories, files, bucket, calls, results, effects>>

\* the clean-up flag is read after the try statement
CleanupCheck ==
    /\ pc = "cleanup_check"
    /\ pc' = IF CleanupEnabled(env.DELETE_DATA_FILES) THEN "cleanup_raw" ELSE "log_processed"
    /\ UNCHANGED <<nonBatchVars, env, gas_filenames, electricity_filenames, loop_index, frame,
                   directories, files, bucket, exception, steps, calls, results, effects>>

\* variant: try_cleanup_file without its try/except
TryCleanupFileUncaught(step, file_path, next_pc) ==
    /\ pc = step
    /\ IF file_path \in DOMAIN files
       THEN \E outcome \in {"deleted", "error"} :
               /\ files' = IF outcome = "deleted" THEN Remove(files, file_path) ELSE files
               /\ steps' = Append(steps, <<step, outcome>>)
               /\ effects' = effects \cup {"delete"}
               /\ IF outcome = "deleted"
                  THEN pc' = next_pc /\ UNCHANGED exception
                  ELSE pc' = "raised" /\ exception' = "OSError"
       ELSE /\ steps' = Append(steps, <<step, "absent">>)
            /\ pc' = next_pc
            /\ UNCHANGED <<files, effects, exception>>
    /\ UNCHANGED <<nonBatchVars, env, gas_filenames, electricity_filenames, loop_index, frame,
                   directories, bucket, calls, results>>

\* try_cleanup_file: os.remove if the path exists; an exception of os.remove
\* is logged as a warning and the file stays
TryCleanupFile(step, file_path, next_pc) ==
    /\ pc = step
    /\ IF file_path \in DOMAIN files
       THEN \E outcome \in {"deleted", "error"} :
               /\ files' = IF outcome = "deleted" THEN Remove(files, file_path) ELSE files
               /\ steps' = Append(steps, <<step, outcome>>)
               /\ effects' = effects \cup {"delete"}
       ELSE /\ steps' = Append(steps, <<step, "absent">>)
            /\ UNCHANGED <<files, effects>>
    /\ pc' = next_pc
    /\ UNCHANGED <<nonBatchVars, env, gas_filenames, electricity_filenames, loop_index, frame,
                   directories, bucket, exception, calls, results>>

TryCleanupRawFile == TryCleanupFile("cleanup_raw", frame.raw_file_path, "cleanup_processed")

TryCleanupProcessedFile ==
    TryCleanupFile("cleanup_processed", frame.processed_file_path, "log_processed")

\* variant: the loop index is advanced twice per call
ProcessFileReturnSkip ==
    /\ pc = "log_processed"
    /\ steps' = Append(steps, <<"return", "ok">>)
    /\ pc' = IF frame.energy_type = "gas" THEN "gas_loop" ELSE "electricity_loop"
    /\ loop_index' = loop_index + 2
    /\ results' = Append(results, IF \A i \in 1..Len(TrySteps) : Succeeded(TrySteps[i])
                                  THEN "ok" ELSE "failed")
    /\ UNCHANGED <<nonBatchVars, env, gas_filenames, electricity_filenames, frame, directories,
                   files, bucket, exception, calls, effects>>

\* the last log entry; the call returns to the loop that made it (the gas
\* loop passes 'gas', the electricity loop 'electricity')
ProcessFileReturn ==
    /\ pc = "log_processed"
    /\ steps' = Append(steps, <<"return", "ok">>)
    /\ pc' = IF frame.energy_type = "gas" THEN "gas_loop" ELSE "electricity_loop"
    /\ loop_index' = loop_index + 1
    /\ results' = Append(results, IF \A i \in 1..Len(TrySteps) : Succeeded(TrySteps[i])
                                  THEN "ok" ELSE "failed")
    /\ UNCHANGED <<nonBatchVars, env, gas_filenames, electricity_filenames, frame, directories,
                   files, bucket, exception, calls, effects>>

(***************************************************************************)
(* process_files(): the two loops.                                         *)
(***************************************************************************)
NextGasFile ==
    /\ pc = "gas_loop"
    /\ loop_index <= Len(gas_filenames)
    /\ ProcessFileEnter("gas", env.DATA_SOURCE_GAS_ROOT_URL, gas_filenames[loop_index])

GasFilesDone ==
    /\ pc = "gas_loop"
    /\ loop_index > Len(gas_filenames)
    /\ pc' = "electricity_loop"
    /\ loop_index' = 1
    /\ UNCHANGED <<nonBatchVars, env, gas_filenames, electricity_filenames, frame, directories,
                   files, bucket, exception, steps, calls, results, effects>>

NextElectricityFile ==
    /\ pc = "electricity_loop"
    /\ loop_index <= Len(electricity_filenames)
    /\ ProcessFileEnter("electricity", env.DATA_SOURCE_ELECTRICITY_ROOT_URL,
                        electricity_filenames[loop_index])

ElectricityFilesDone ==
    /\ pc = "electricity_loop"
    /\ loop_index > Len(electricity_filenames)
    /\ pc' = "done"
    /\ UNCHANGED <<nonBatchVars, env, gas_filenames, electricity_filenames, loop_index, frame,
                   directories, files, bucket, exception, steps, calls, results, effects>>

Next ==
    \/ CheckGasConfiguration
    \/ CheckElectricityConfiguration
    \/ EnsureWorkingDirectories
    \/ NextGasFile
    \/ GasFilesDone
    \/ NextElectricityFile
    \/ ElectricityFilesDone
    \/ TryDownloadFile
    \/ TryProcessFile
    \/ TryUploadRawFile
    \/ TryUploadProcessedFile
    \/ ExceptException
    \/ CleanupCheck
    \/ TryCleanupRawFile
    \/ TryCleanupProcessedFile
    \/ ProcessFileReturn

Spec == Init /\ [][Next]_vars

\* the batch run with every statement terminating: the single thread of
\* control goes on to its next statement as long as there is one
LiveSpec == Spec /\ WF_vars(Next)

(***************************************************************************)
(* try_process_file(), called on its own as the tests call it: the raw     *)
(* file is read with csv.DictReader and every row is written, reshaped,    *)
(* with csv.DictWriter.  File contents are the parsed lines (lists of      *)
(* cells); a cell is a Python string.                                      *)
(***************************************************************************)
\* most lines that follow the header line of a raw file
MaxRows == 2

\* the header of a raw file as the source distributes it
input_field_names == <<"POSTCODE", "Number of meters", "Consumption (kWh)",
                       "Mean consumption (kWh)", "Median consumption (kWh)">>

output_field_names == <<"EnergyType", "Year", "PostCode", "MeterCount",
                        "TotalConsumption", "MeanConsumption", "MedianConsumption">>

\* Python's None, which is no string
None == <<"None">>

\* str(n) for an int
RECURSIVE NatToStr(_)
NatToStr(n) ==
    IF n < 10 THEN <<Digits[n + 1]>>
    ELSE NatToStr(n \div 10) \o <<Digits[(n % 10) + 1]>>
IntToStr(n) == IF n < 0 THEN <<"-">> \o NatToStr(0 - n) ELSE NatToStr(n)

\* header lines of the modelled raw files: the five fields, the five fields in
\* another order, with one more column, without the last field, the first
\* field alone, and no header at all (an empty file or a blank first line)
HeaderPool ==
    { input_field_names,
      <<"Median consumption (kWh)", "Mean consumption (kWh)", "Consumption (kWh)",
        "Number of meters", "POSTCODE">>,
      <<"Region">> \o input_field_names,
      SubSeq(input_field_names, 1, 4),
      <<"POSTCODE">>,
      <<>> }

\* a line of n cells; the cell of column c of line tag is the string tag c
LineOf(tag, n) == [c \in 1..n |-> <<tag, Digits[c + 1]>>]

\* the lines that may follow a header of n fields: as many cells as the header
\* has, one less, one more, or a blank line
LinePool(n) ==
    {LineOf(tag, k) : tag \in {"a", "b"}, k \in {m \in {n - 1, n, n + 1} : m > 0}}
        \cup {<<>>}

\* the years and energy types try_process_file is called with
YearPool == {2020, 1999, 0 - 5}
EnergyTypes == {"gas", "electricity"}

\* csv.DictReader skips the lines without cells: the position of the next
\* line that has cells, 0 when there is none
NextLine(rd) ==
    IF \E i \in (rd.line_num + 1)..Len(rd.lines) : rd.lines[i] # <<>>
    THEN CHOOSE i \in (rd.line_num + 1)..Len(rd.lines) :
            /\ rd.lines[i] # <<>>
            /\ \A j \in (rd.line_num + 1)..(i - 1) : rd.lines[j] = <<>>
    ELSE 0

\* the keys of the dict that DictReader builds for a line
HasKey(fieldnames, key) == \E i \in 1..Len(fieldnames) : fieldnames[i] = key

\* row[key] of that dict: dict(zip(fieldnames, line)), then restval (None)
\* for every field name beyond the cells of the line
RowValue(fieldnames, line, key) ==
    IF \E i \in (Len(line) + 1)..Len(fieldnames) : fieldnames[i] = key
    THEN None
    ELSE LET last == CHOOSE i \in 1..Len(fieldnames) :
                        /\ fieldnames[i] = key
                        /\ i <= Len(line)
                        /\ \A j \in (i + 1)..Len(fieldnames) :
                              j <= Len(line) => fieldnames[j] # key
         IN  line[last]

\* the cell csv.writer writes for a value: '' for None
WriteCell(value) == IF value = None THEN <<>> ELSE value

\* variant: the mean and the median columns are exchanged
TransformedRowSwapped(energy_type, year, fieldnames, line) ==
    << energy_type,
       IntToStr(year),
       WriteCell(RowValue(fieldnames, line, "POSTCODE")),
       WriteCell(RowValue(fieldnames, line, "Number of meters")),
       WriteCell(RowValue(fieldnames, line, "Consumption (kWh)")),
       WriteCell(RowValue(fieldnames, line, "Median consumption (kWh)")),
       WriteCell(RowValue(fieldnames, line, "Mean consumption (kWh)")) >>

\* transformed_row_dict as writer.writerow() writes it, in the order of
\* output_field_names
TransformedRow(energy_type, year, fieldnames, line) ==
    << energy_type,
       IntToStr(year),
       WriteCell(RowValue(fieldnames, line, "POSTCODE")),
       WriteCell(RowValue(fieldnames, line, "Number of meters")),
       WriteCell(RowValue(fieldnames, line, "Consumption (kWh)")),
       WriteCell(RowValue(fieldnames, line, "Mean consumption (kWh)")),
       WriteCell(RowValue(fieldnames, line, "Median consumption (kWh)")) >>

\* the first of the five keys, in the order the row is built, that the dict
\* of a line lacks: row[key] raises KeyError for it; "" when none is missing
MissingKey(fieldnames) ==
    IF \E i \in 1..Len(input_field_names) : ~HasKey(fieldnames, input_field_names[i])
    THEN input_field_names[CHOOSE i \in 1..Len(input_field_names) :
            /\ ~HasKey(fieldnames, input_field_names[i])
            /\ \A j \in 1..(i - 1) : HasKey(fieldnames, input_field_names[j])]
    ELSE ""

\* the call try_process_file(energy_type, year, raw_file_path, ...)
TransformInit ==
    /\ \E energy_type \in EnergyTypes, year \in YearPool, header \in HeaderPool :
          /\ frame = [NoFrame EXCEPT !.energy_type = energy_type, !.year = year]
          /\ \E lines \in ListsUpTo(LinePool(Len(header)), MaxRows) :
                reader = [fieldnames |-> header, lines |-> lines, line_num |-> 0]
    /\ writer = <<>>
    /\ row_count = 0
    /\ pc = "open"
    /\ exception = "none"
    /\ steps = <<>>
    /\ env = [DELETE_DATA_FILES |-> <<"N">>]
    /\ gas_filenames = <<>>
    /\ electricity_filenames = <<>>
    /\ loop_index = 0
    /\ directories = WorkingDirectories
    /\ files = EmptyMap
    /\ bucket = EmptyMap
    /\ calls = <<>>
    /\ results = <<>>
    /\ effects = {}
    /\ WarehouseIdle
    /\ RunsIdle
    /\ UtilityIdle

\* both gzip.open calls and writer.writeheader(); an OSError of either open
\* leaves the function
TryProcessFileOpen ==
    /\ pc = "open"
    /\ \E outcome \in {"ok", "error"} :
          IF outcome = "ok"
          THEN /\ writer' = <<output_field_names>>
               /\ pc' = "rows"
               /\ UNCHANGED exception
          ELSE /\ Raise("OSError")
               /\ UNCHANGED writer
    /\ row_count' = 0
    /\ UNCHANGED <<reader, env, gas_filenames, electricity_filenames, loop_index, frame,
                   directories, files, bucket, steps, calls, results, effects,
                   warehouseVars, runsVars, utilityVars>>

\* one pass of 'for row in reader': the row is reshaped and written, or one
\* of the five row[...] lookups raises KeyError
TryProcessFileRow ==
    /\ pc = "rows"
    /\ NextLine(reader) # 0
    /\ reader' = [reader EXCEPT !.line_num = NextLine(reader)]
    /\ IF MissingKey(reader.fieldnames) # ""
       THEN /\ Raise("KeyError")
            /\ UNCHANGED <<writer, row_count>>
       ELSE /\ writer' = Append(writer,
                                TransformedRow(frame.energy_type, frame.year,
                                               reader.fieldnames,
                                               reader.lines[NextLine(reader)]))
            /\ row_count' = row_count + 1
            /\ UNCHANGED <<pc, exception>>
    /\ UNCHANGED <<env, gas_filenames, electricity_filenames, loop_index, frame,
                   directories, files, bucket, steps, calls, results, effects,
                   warehouseVars, runsVars, utilityVars>>

\* the reader is exhausted: both files are closed, the sizes are logged and
\* the function returns
TryProcessFileReturn ==
    /\ pc = "rows"
    /\ NextLine(reader) = 0
    /\ pc' = "returned"
    /\ UNCHANGED <<transformVars, env, gas_filenames, electricity_filenames,
                   loop_index, frame, directories, files, bucket, exception, steps,
                   calls, results, effects, warehouseVars, runsVars, utilityVars>>

TransformNext ==
    \/ TryProcessFileOpen
    \/ TryProcessFileRow
    \/ TryProcessFileReturn

TransformSpec == TransformInit /\ [][TransformNext]_vars

(***************************************************************************)
(* process_file(), called on its own with any root URL and filename: the   *)
(* URL, the paths and the year of lines 82-96.                             *)
(***************************************************************************)
\* root URLs that do not end with a slash, and all root URLs of the model
BareRootUrls == {GasRootUrl, SubSeq(ElectricityRootUrl, 1, Len(ElectricityRootUrl) - 1)}
RootUrlPool == BareRootUrls \cup {r \o <<"/">> : r \in BareRootUrls} \cup {<<>>}

\* process_file(working_directory, energy_type, root_url, filename) is called
ProcessFileInit ==
    /\ \E energy_type \in EnergyTypes, root_url \in RootUrlPool,
          t \in TypeTokens, y \in YearTokens, e \in Extensions :
          frame = [NoFrame EXCEPT !.energy_type = energy_type, !.root_url = root_url,
                                  !.filename = t \o y \o e]
    /\ pc = "call"
    /\ exception = "none"
    /\ steps = <<>>
    /\ calls = <<>>
    /\ results = <<>>
    /\ effects = {}
    /\ env = [DELETE_DATA_FILES |-> <<"N">>]
    /\ gas_filenames = <<>>
    /\ electricity_filenames = <<>>
    /\ loop_index = 0
    /\ directories = WorkingDirectories
    /\ files = EmptyMap
    /\ bucket = EmptyMap
    /\ TransformIdle
    /\ WarehouseIdle
    /\ RunsIdle
    /\ UtilityIdle

\* lines 82-101: control reaches the try statement, or an exception leaves
\* the function
ProcessFileCall ==
    /\ pc = "call"
    /\ ProcessFileEnter(frame.energy_type, frame.root_url, frame.filename)

ProcessFileSpec == ProcessFileInit /\ [][ProcessFileCall]_vars

(***************************************************************************)
(* Two batch runs over the same manifest at the same time.  Each run is a  *)
(* process executing process_files(); the runs have one bucket and, when   *)
(* they are started in the same current directory, one working directory.  *)
(* A download is two steps, the open that truncates the raw file and the   *)
(* end of the chunk loop, so that the other run can act in between.        *)
(***************************************************************************)
RunIds == {"A", "B"}

\* the manifest of the runs: one gas file and one electricity file
RunEntries ==
    << [energy_type |-> "gas", root_url |-> GasRootUrl, filename |-> Gas2020_csv_gz],
       [energy_type |-> "electricity", root_url |-> ElectricityRootUrl,
        filename |-> Electricity1999_csv_gz] >>

\* variant: every run is started in the same current directory
RunDirectoryShared(r) == "A"

\* os.getcwd() of a run, named after the run that owns it
RunDirectory(r) == IF shared_directory THEN "A" ELSE r

\* what a run that meets no error writes for an entry
ExpectedRaw(entry) == RawContent(BuildUrl(entry.root_url, entry.filename), TRUE)
ExpectedProcessed(entry) ==
    ProcessedContent(ExpectedRaw(entry), entry.energy_type,
                     ExtractYear(entry.filename).value, TRUE)

RunsInit ==
    /\ shared_directory \in BOOLEAN
    /\ runs = [r \in RunIds |-> [pc |-> "download_open", entry |-> 1, handle |-> "none",
                                 ok |-> TRUE, outcomes |-> <<>>]]
    /\ disks = [d \in {RunDirectory(r) : r \in RunIds} |-> EmptyMap]
    /\ bucket = StaleBucket
    /\ \E delete_data_files \in {<<"Y">>, <<"N">>} :
          env = [DATA_SOURCE_GAS_ROOT_URL |-> GasRootUrl,
                 DATA_SOURCE_GAS_FILENAMES |-> Gas2020_csv_gz,
                 DATA_SOURCE_ELECTRICITY_ROOT_URL |-> ElectricityRootUrl,
                 DATA_SOURCE_ELECTRICITY_FILENAMES |-> Electricity1999_csv_gz,
                 DELETE_DATA_FILES |-> delete_data_files]
    /\ pc = "runs"
    /\ gas_filenames = <<>>
    /\ electricity_filenames = <<>>
    /\ loop_index = 0
    /\ frame = NoFrame
    /\ directories = WorkingDirectories
    /\ files = EmptyMap
    /\ exception = "none"
    /\ steps = <<>>
    /\ calls = <<>>
    /\ results = <<>>
    /\ effects = {}
    /\ TransformIdle
    /\ WarehouseIdle
    /\ UtilityIdle

\* the entry a run is at, its local paths and its object keys
RunEntry(r) == RunEntries[runs[r].entry]
RunRawPath(r) == RawFilePath(RunEntry(r).filename)
RunProcessedPath(r) == ProcessedFilePath(RunEntry(r).filename)

\* the other runs that are writing the file at path through a handle of their own
WritingElsewhere(r, path) ==
    {o \in RunIds \ {r} : /\ RunDirectory(o) = RunDirectory(r)
                          /\ runs[o].pc = "download_write"
                          /\ RunRawPath(o) = path}

\* a step of the try block raised: control goes to the clean-up of the entry
RunFailed(r, rs) == [rs EXCEPT ![r].pc = "cleanup", ![r].ok = FALSE, ![r].handle = "none"]

RunUnchanged ==
    UNCHANGED <<shared_directory, env, pc, gas_filenames, electricity_filenames,
                loop_index, frame, directories, files, exception, steps, calls,
                results, effects, transformVars, warehouseVars, utilityVars>>

\* download_file: requests.get and raise_for_status, then open(..., 'wb'),
\* which empties the file whoever else is writing it
RunDownloadOpen(r) ==
    /\ runs[r].pc = "download_open"
    /\ \E outcome \in {"ok", "error_before_write"} :
          IF outcome = "ok"
          THEN /\ disks' = [disks EXCEPT ![RunDirectory(r)] =
                              Put(@, RunRawPath(r),
                                  RawContent(BuildUrl(RunEntry(r).root_url,
                                                      RunEntry(r).filename), FALSE))]
               /\ runs' = [o \in RunIds |->
                             IF o = r
                             THEN [runs[o] EXCEPT !.pc = "download_write", !.handle = "own"]
                             ELSE IF o \in WritingElsewhere(r, RunRawPath(r))
                                     /\ runs[o].handle = "own"
                             THEN [runs[o] EXCEPT !.handle = "truncated"]
                             ELSE runs[o]]
          ELSE /\ runs' = RunFailed(r, runs)
               /\ UNCHANGED disks
    /\ UNCHANGED bucket
    /\ RunUnchanged

\* download_file: the chunk loop ends or raises; try_download_file then asks
\* for the size of the file.  The file is whole when the run wrote it
\* undisturbed; after another run emptied it, it is whole or not; a handle
\* whose file was deleted writes nothing that the path shows
RunDownloadWrite(r) ==
    /\ runs[r].pc = "download_write"
    /\ LET disk == disks[RunDirectory(r)]
           path == RunRawPath(r)
       IN  \E outcome \in {"ok", "error_mid_write"}, whole \in BOOLEAN :
              /\ whole = TRUE \/ (runs[r].handle = "truncated" /\ outcome = "ok")
              /\ disks' = IF outcome = "ok" /\ path \in DOMAIN disk
                             /\ runs[r].handle \in {"own", "truncated"}
                          THEN [disks EXCEPT ![RunDirectory(r)] =
                                   Put(@, path, [disk[path] EXCEPT
                                                   !.complete = whole \/ disk[path].complete])]
                          ELSE disks
              /\ runs' = IF outcome = "ok" /\ path \in DOMAIN disk
                         THEN [runs EXCEPT ![r].pc = "transform", ![r].handle = "none"]
                         ELSE RunFailed(r, runs)
    /\ UNCHANGED bucket
    /\ RunUnchanged

\* try_process_file: gzip raises on a raw file that is missing or not whole
RunTransform(r) ==
    /\ runs[r].pc = "transform"
    /\ LET disk == disks[RunDirectory(r)]
       IN  \E outcome \in WriteOutcomes :
              /\ RunRawPath(r) \notin DOMAIN disk => outcome = "error_before_write"
              /\ outcome = "ok" => disk[RunRawPath(r)].complete
              /\ disks' = IF outcome = "error_before_write" THEN disks
                          ELSE [disks EXCEPT ![RunDirectory(r)] =
                                   Put(@, RunProcessedPath(r),
                                       ProcessedContent(disk[RunRawPath(r)],
                                                        RunEntry(r).energy_type,
                                                        ExtractYear(RunEntry(r).filename).value,
                                                        outcome = "ok"))]
              /\ runs' = IF outcome = "ok"
                         THEN [runs EXCEPT ![r].pc = "upload_raw"]
                         ELSE RunFailed(r, runs)
    /\ UNCHANGED bucket
    /\ RunUnchanged

\* try_upload_file: the object becomes what the local file holds at that time
RunUpload(r, step, local_file_path, s3_object_key, next_pc) ==
    /\ runs[r].pc = step
    /\ LET disk == disks[RunDirectory(r)]
       IN  \E outcome \in {"ok", "error"} :
              /\ local_file_path \notin DOMAIN disk => outcome = "error"
              /\ bucket' = IF outcome = "ok"
                           THEN Put(bucket, s3_object_key, disk[local_file_path])
                           ELSE bucket
              /\ runs' = IF outcome = "ok"
                         THEN [runs EXCEPT ![r].pc = next_pc]
                         ELSE RunFailed(r, runs)
    /\ UNCHANGED disks
    /\ RunUnchanged

RunUploadRaw(r) ==
    RunUpload(r, "upload_raw", RunRawPath(r), RawObjectKey(RunRawPath(r)), "upload_processed")

RunUploadProcessed(r) ==
    RunUpload(r, "upload_processed", RunProcessedPath(r),
              ProcessedObjectKey(RunProcessedPath(r)), "cleanup")

\* the end of process_file: both try_cleanup_file calls when the clean-up is
\* enabled (each os.remove may fail and leave its file), then the next entry
RunCleanup(r) ==
    /\ runs[r].pc = "cleanup"
    /\ LET disk == disks[RunDirectory(r)]
       IN  \E removed \in SUBSET ({RunRawPath(r), RunProcessedPath(r)} \cap DOMAIN disk) :
              /\ ~CleanupEnabled(env.DELETE_DATA_FILES) => removed = {}
              /\ disks' = [disks EXCEPT ![RunDirectory(r)] =
                              [p \in (DOMAIN disk) \ removed |-> disk[p]]]
              /\ runs' = [o \in RunIds |->
                            IF o = r
                            THEN [runs[o] EXCEPT
                                    !.outcomes = Append(@, IF runs[o].ok THEN "ok" ELSE "failed"),
                                    !.ok = TRUE,
                                    !.pc = IF runs[o].entry < Len(RunEntries)
                                           THEN "download_open" ELSE "done",
                                    !.entry = IF runs[o].entry < Len(RunEntries)
                                              THEN @ + 1 ELSE @]
                            ELSE IF o \in WritingElsewhere(r, RunRawPath(r))
                                    /\ RunRawPath(r) \in removed
                            THEN [runs[o] EXCEPT !.handle = "unlinked"]
                            ELSE runs[o]]
    /\ UNCHANGED bucket
    /\ RunUnchanged

RunsNext ==
    \E r \in RunIds :
       \/ RunDownloadOpen(r)
       \/ RunDownloadWrite(r)
       \/ RunTransform(r)
       \/ RunUploadRaw(r)
       \/ RunUploadProcessed(r)
       \/ RunCleanup(r)

RunsSpec == RunsInit /\ [][RunsNext]_vars

(***************************************************************************)
(* load_snowflake(): the version query, then TRUNCATE and COPY INTO on a   *)
(* second connection.  The warehouse is modelled by what its statements    *)
(* do: TRUNCATE empties the table and forgets which files were loaded into *)
(* it; COPY INTO loads every file under the stage path that it has not     *)
(* recorded as loaded, or fails and loads nothing (each statement commits  *)
(* on its own).  The stage S3_STAGE is taken to be the root of the bucket. *)
(***************************************************************************)
\* most calls of load_snowflake in one behaviour
MaxLoads == 2

\* stage_path of the snowflake_load_data call
stage_path == <<"/">> \o Str_processed \o <<"/">>

\* the files COPY INTO finds under @S3_STAGE/processed/: key and content
StagedFiles == {<<k, bucket[k]>> : k \in {x \in DOMAIN bucket : StartsWith(x, Tail(stage_path))}}

\* the table with one more copy of the rows of each of the files
AddCopies(t, loaded) ==
    [f \in (DOMAIN t) \cup loaded |->
        (IF f \in DOMAIN t THEN t[f] ELSE 0) + (IF f \in loaded THEN 1 ELSE 0)]

\* what the table and the bucket hold when load_snowflake is first called:
\* the table is empty, was loaded by an earlier COPY, or holds rows twice or
\* rows of a file that is gone
WarehouseInit ==
    /\ bucket \in {EmptyMap, StaleBucket,
                   Put(StaleBucket,
                       ProcessedObjectKey(ProcessedFilePath(Electricity1999_csv_gz)),
                       ExpectedProcessed(RunEntries[2]))}
    /\ \E earlier \in SUBSET (StagedFiles \cup
                                {<<ProcessedObjectKey(ProcessedFilePath(Badname_csv_gz)),
                                   StaleContent>>}),
          copies \in 1..2 :
          /\ table = [f \in earlier |-> copies]
          /\ load_metadata \in {{}, earlier}
    /\ statements = <<>>
    /\ connections = {}
    /\ pc = "read_version"
    /\ exception = "none"
    /\ results = <<>>
    /\ env = [DELETE_DATA_FILES |-> <<"N">>]
    /\ gas_filenames = <<>>
    /\ electricity_filenames = <<>>
    /\ loop_index = 0
    /\ frame = NoFrame
    /\ directories = WorkingDirectories
    /\ files = EmptyMap
    /\ steps = <<>>
    /\ calls = <<>>
    /\ effects = {}
    /\ TransformIdle
    /\ RunsIdle
    /\ UtilityIdle

WarehouseUnchanged ==
    UNCHANGED <<env, gas_filenames, electricity_filenames, loop_index, frame, directories,
                files, steps, calls, effects, transformVars, runsVars, utilityVars>>

\* variant: COPY INTO is issued before TRUNCATE
WarehouseNextStepCopyFirst(step) ==
    CASE step = "read_version" -> "connect"
      [] step = "connect" -> "copy"
      [] step = "copy" -> "truncate"
      [] step = "truncate" -> "finished"

\* where control goes when a step of try_snowflake_load returns normally
WarehouseNextStep(step) ==
    CASE step = "read_version" -> "connect"
      [] step = "connect" -> "truncate"
      [] step = "truncate" -> "copy"
      [] step = "copy" -> "finished"

\* variant: load_snowflake without its try/except
SnowflakeRaiseUncaught(e) == Raise(e)

\* an exception raised under try_snowflake_load reaches the except clause of
\* load_snowflake
SnowflakeRaise(e) ==
    /\ exception' = e
    /\ pc' = "except"

\* variant: a failure of the connectivity test is logged and the load goes on
SnowflakeReadVersionNotRequired ==
    /\ pc = "read_version"
    /\ \E outcome \in {"ok", "connect_error", "error"} :
          /\ statements' = IF outcome = "connect_error" THEN <<>>
                           ELSE << <<"SELECT current_version()", outcome>> >>
          /\ connections' = IF outcome = "error"
                            THEN connections \cup {"snowflake_read_version.ctx"}
                            ELSE connections
    /\ pc' = WarehouseNextStep("read_version")
    /\ UNCHANGED <<bucket, table, load_metadata, results, exception>>
    /\ WarehouseUnchanged

\* snowflake_read_version: connect, SELECT current_version(), fetchone.  The
\* cursor is closed in the finally clause, the connection by the statement
\* after the try statement, which an exception of the query skips.
SnowflakeReadVersion ==
    /\ pc = "read_version"
    /\ \E outcome \in {"ok", "connect_error", "error"} :
          /\ statements' = IF outcome = "connect_error" THEN <<>>
                           ELSE << <<"SELECT current_version()", outcome>> >>
          /\ connections' = IF outcome = "error"
                            THEN connections \cup {"snowflake_read_version.ctx"}
                            ELSE connections
          /\ IF outcome = "ok"
             THEN pc' = WarehouseNextStep("read_version") /\ UNCHANGED exception
             ELSE SnowflakeRaise("SnowflakeError")
    /\ UNCHANGED <<bucket, table, load_metadata, results>>
    /\ WarehouseUnchanged

\* snowflake_load_data: the private key is read, the connection is made and
\* its cursor is created
SnowflakeConnect ==
    /\ pc = "connect"
    /\ \E outcome \in {"ok", "error"} :
          IF outcome = "ok"
          THEN /\ connections' = connections \cup {"snowflake_load_data.ctx",
                                                   "snowflake_load_data.cs"}
               /\ pc' = WarehouseNextStep("connect")
               /\ UNCHANGED exception
          ELSE /\ SnowflakeRaise("SnowflakeError")
               /\ UNCHANGED connections
    /\ UNCHANGED <<bucket, table, load_metadata, statements, results>>
    /\ WarehouseUnchanged

\* variant: the rows are deleted but the record of the loaded files is kept
SnowflakeTruncateKeepsMetadata ==
    /\ pc = "truncate"
    /\ \E outcome \in {"ok", "error"} :
          /\ statements' = Append(statements, <<"TRUNCATE TABLE", outcome>>)
          /\ IF outcome = "ok"
             THEN /\ table' = EmptyMap
                  /\ pc' = WarehouseNextStep("truncate")
                  /\ UNCHANGED exception
             ELSE /\ SnowflakeRaise("SnowflakeError")
                  /\ UNCHANGED table
          /\ connections' = IF outcome = "ok" THEN connections
                            ELSE connections \ {"snowflake_load_data.cs"}
    /\ UNCHANGED <<bucket, results, load_metadata>>
    /\ WarehouseUnchanged

\* cs.execute("TRUNCATE TABLE ..."); when it raises, the finally clause
\* closes the cursor and ctx.close() is not reached
SnowflakeTruncate ==
    /\ pc = "truncate"
    /\ \E outcome \in {"ok", "error"} :
          /\ statements' = Append(statements, <<"TRUNCATE TABLE", outcome>>)
          /\ connections' = IF outcome = "ok" THEN connections
                            ELSE connections \ {"snowflake_load_data.cs"}
          /\ IF outcome = "ok"
             THEN /\ table' = EmptyMap
                  /\ load_metadata' = {}
                  /\ pc' = WarehouseNextStep("truncate")
                  /\ UNCHANGED exception
             ELSE /\ SnowflakeRaise("SnowflakeError")
                  /\ UNCHANGED <<table, load_metadata>>
    /\ UNCHANGED <<bucket, results>>
    /\ WarehouseUnchanged

\* cs.execute(copy_into_sql), the finally clause, and ctx.close() when the
\* statement did not raise
SnowflakeCopyInto ==
    /\ pc = "copy"
    /\ \E outcome \in {"ok", "error"} :
          /\ statements' = Append(statements, <<"COPY INTO", outcome>>)
          /\ connections' = IF outcome = "ok"
                            THEN connections \ {"snowflake_load_data.cs",
                                                "snowflake_load_data.ctx"}
                            ELSE connections \ {"snowflake_load_data.cs"}
          /\ IF outcome = "ok"
             THEN /\ table' = AddCopies(table, StagedFiles \ load_metadata)
                  /\ load_metadata' = load_metadata \cup StagedFiles
                  /\ pc' = WarehouseNextStep("copy")
                  /\ UNCHANGED exception
             ELSE /\ SnowflakeRaise("SnowflakeError")
                  /\ UNCHANGED <<table, load_metadata>>
    /\ UNCHANGED <<bucket, results>>
    /\ WarehouseUnchanged

\* except Exception: the error is logged and load_snowflake returns
LoadSnowflakeExcept ==
    /\ pc = "except"
    /\ exception' = "none"
    /\ results' = Append(results, "failed")
    /\ pc' = "returned"
    /\ UNCHANGED <<bucket, table, load_metadata, statements, connections>>
    /\ WarehouseUnchanged

\* try_snowflake_load returned: the last log entry, load_snowflake returns
LoadSnowflakeReturn ==
    /\ pc = "finished"
    /\ results' = Append(results, "ok")
    /\ pc' = "returned"
    /\ UNCHANGED <<bucket, table, load_metadata, statements, connections, exception>>
    /\ WarehouseUnchanged

\* the next scheduled execution: a batch run has left the bucket as it was or
\* has uploaded the files of one entry, and load_snowflake is called again
NextLoad ==
    /\ pc = "returned"
    /\ Len(results) < MaxLoads
    /\ \/ UNCHANGED bucket
       \/ \E i \in 1..Len(RunEntries) :
             LET filename == RunEntries[i].filename
             IN  bucket' = Put(Put(bucket, RawObjectKey(RawFilePath(filename)),
                                   ExpectedRaw(RunEntries[i])),
                               ProcessedObjectKey(ProcessedFilePath(filename)),
                               ExpectedProcessed(RunEntries[i]))
    /\ statements' = <<>>
    /\ pc' = "read_version"
    /\ UNCHANGED <<table, load_metadata, connections, results, exception>>
    /\ WarehouseUnchanged

WarehouseNext ==
    \/ SnowflakeReadVersion
    \/ SnowflakeConnect
    \/ SnowflakeTruncate
    \/ SnowflakeCopyInto
    \/ LoadSnowflakeExcept
    \/ LoadSnowflakeReturn
    \/ NextLoad

WarehouseSpec == WarehouseInit /\ [][WarehouseNext]_vars

(***************************************************************************)
(* main(): logging is started, the environment is logged, the enabled flag *)
(* is checked and the placeholder body runs.  os.environ is a sequence of  *)
(* <<name, value>> pairs in insertion order.                               *)
(***************************************************************************)
\* names and values of os.environ
Str_secret == <<"s", "e", "c", "r", "e", "t">>
Str_CRUK_ENABLED ==
    <<"C", "R", "U", "K", "_", "E", "N", "A", "B", "L", "E", "D">>
Str_CRUK_SERVICE_NAME ==
    <<"C", "R", "U", "K", "_", "S", "E", "R", "V", "I", "C", "E", "_", "N", "A", "M",
      "E">>
Str_RUNNINGINCONTAINER ==
    <<"R", "U", "N", "N", "I", "N", "G", "I", "N", "C", "O", "N", "T", "A", "I", "N",
      "E", "R">>
Str_ECS_CONTAINER_METADATA_URI_V4 ==
    <<"E", "C", "S", "_", "C", "O", "N", "T", "A", "I", "N", "E", "R", "_", "M", "E",
      "T", "A", "D", "A", "T", "A", "_", "U", "R", "I", "_", "V", "4">>
\* the messages of main(), log_environment() and log_environment_variables()
Msg_EnvironmentInfo ==
    <<"E", "n", "v", "i", "r", "o", "n", "m", "e", "n", "t", " ", "I", "n", "f", "o",
      ":">>
Msg_RunningInContainer ==
    <<"R", "u", "n", "n", "i", "n", "g", " ", "i", "n", " ", "c", "o", "n", "t", "a",
      "i", "n", "e", "r", ":", " ">>
Msg_RunningInAws ==
    <<"R", "u", "n", "n", "i", "n", "g", " ", "i", "n", " ", "A", "W", "S", ":", " ">>
Msg_IdentityRetrieved ==
    <<"A", "W", "S", " ", "I", "A", "M", " ", "c", "a", "l", "l", "i", "n", "g", " ",
      "i", "d", "e", "n", "t", "i", "t", "y", " ", "r", "e", "t", "r", "i", "e", "v",
      "e", "d", ".">>
Msg_CurrentWorkingDirectory ==
    <<"C", "u", "r", "r", "e", "n", "t", " ", "w", "o", "r", "k", "i", "n", "g", " ",
      "d", "i", "r", "e", "c", "t", "o", "r", "y", ":", " ">>
Msg_ENV ==
    <<"E", "N", "V", ":", " ">>
Msg_Equals ==
    <<" ", "=", " ">>
Msg_EqualsSecret ==
    <<" ", "=", " ", "s", "e", "c", "r", "e", "t", ":", " ">>
Msg_NotEnabled ==
    <<"A", "W", "S", " ", "P", "a", "r", "a", "m", "e", "t", "e", "r", " ", "C", "R",
      "U", "K", "_", "E", "N", "A", "B", "L", "E", "D", " ", "i", "s", " ", "n", "o",
      "t", " ", "s", "e", "t", " ", "t", "o", " ", "Y", " ", "-", " ", "e", "x", "i",
      "t", "i", "n", "g", ".">>
Msg_Hello ==
    <<"H", "e", "l", "l", "o", " ", "f", "r", "o", "m", " ", "t", "h", "e", " ", "E",
      "n", "e", "r", "g", "y", " ", "U", "s", "a", "g", "e", " ", "E", "L", "T", " ",
      "A", "p", "p", ".">>
Msg_CurrentTime ==
    <<"T", "h", "e", " ", "c", "u", "r", "r", "e", "n", "t", " ", "d", "a", "t", "e",
      " ", "a", "n", "d", " ", "t", "i", "m", "e", " ", "i", "s", " ", "%", "s", ".">>
Msg_Unhandled ==
    <<"U", "n", "h", "a", "n", "d", "l", "e", "d", " ", "a", "p", "p", "l", "i", "c",
      "a", "t", "i", "o", "n", " ", "e", "r", "r", "o", "r", ".">>
PyBool(b) == IF b THEN <<"T", "r", "u", "e">> ELSE <<"F", "a", "l", "s", "e">>

\* the names a variable besides the CRUK_ ones can have, and its values
OtherNames ==
    { <<"C", "R", "U", "K", "_", "S", "E", "C", "R", "E", "T", "_", "K", "E", "Y">>,
      <<"s", "e", "c", "r", "e", "t">>,
      <<"M", "y", "S", "e", "c", "r", "e", "t", "K", "e", "y">>,
      <<"A", "W", "S", "_", "S", "E", "S", "S", "I", "O", "N", "_", "T", "O", "K", "E", "N">>,
      <<"S", "E", "C", "R", "E", "_", "T">> }
OtherValues == {<<>>, <<"p", "w">>, <<"x", "y">>, <<"h", "u", "n", "t", "e", "r", "2">>}
ServiceNames == {None, <<"s", "v", "c">>}
MetadataUris == {None, <<>>, <<"h", "t", "t", "p", ":", "/", "/", "m">>}
EnabledValues == {None, <<"Y">>, <<"y">>, <<"N">>}
ContainerFlags == {None, <<"1">>}

\* os.environ with one variable more, None meaning that it is not set
WithVariable(e, name, value) == IF value = None THEN e ELSE Append(e, <<name, value>>)

\* os.getenv(name, default)
Getenv(e, name, default) ==
    IF \E i \in DOMAIN e : e[i][1] = name
    THEN e[CHOOSE i \in DOMAIN e : e[i][1] = name][2]
    ELSE default

\* get_env_var_value: the variable's name is the member's name after CRUK_
GetEnvVarValue(e, name) == Getenv(e, name, <<>>)

is_running_in_container(e) == Getenv(e, Str_RUNNINGINCONTAINER, None) = <<"1">>

is_running_in_aws(e) ==
    LET metadata_url == Getenv(e, Str_ECS_CONTAINER_METADATA_URI_V4, None)
    IN  metadata_url # None /\ Len(metadata_url) > 0

\* str.find: the 0-based position of the first occurrence of sub in s, or -1
Find(s, sub) ==
    LET hits == {i \in 0..(Len(s) - Len(sub)) : SubSeq(s, i + 1, i + Len(sub)) = sub}
    IN  IF hits = {} THEN 0 - 1 ELSE CHOOSE i \in hits : \A j \in hits : i <= j

\* variant: the name is searched as it is spelt
EnvMessageCaseSensitive(name, value) ==
    IF Find(name, Str_secret) >= 0
    THEN Msg_ENV \o name \o Msg_EqualsSecret \o NatToStr(Len(value))
    ELSE Msg_ENV \o name \o Msg_Equals \o value

\* log_environment_variables: the message logged for one variable
EnvMessage(name, value) ==
    IF Find(Lower(name), Str_secret) >= 0
    THEN Msg_ENV \o name \o Msg_EqualsSecret \o NatToStr(Len(value))
    ELSE Msg_ENV \o name \o Msg_Equals \o value

MainInit ==
    /\ \E service_name \in ServiceNames, container \in ContainerFlags,
          metadata_url \in MetadataUris, name \in OtherNames, value \in OtherValues,
          enabled \in EnabledValues :
          env = WithVariable(
                  Append(WithVariable(
                           WithVariable(
                             WithVariable(<<>>, Str_CRUK_SERVICE_NAME, service_name),
                             Str_RUNNINGINCONTAINER, container),
                           Str_ECS_CONTAINER_METADATA_URI_V4, metadata_url),
                         <<name, value>>),
                  Str_CRUK_ENABLED, enabled)
    /\ pc = "start_logging"
    /\ steps = <<>>
    /\ log = <<>>
    /\ exit_code = "running"
    /\ loop_index = 0
    /\ obj = <<>>
    /\ max_length = 0
    /\ returned = <<>>
    /\ exception = "none"
    /\ gas_filenames = <<>>
    /\ electricity_filenames = <<>>
    /\ frame = NoFrame
    /\ directories = {}
    /\ files = EmptyMap
    /\ bucket = EmptyMap
    /\ calls = <<>>
    /\ results = <<>>
    /\ effects = {}
    /\ TransformIdle
    /\ WarehouseIdle
    /\ RunsIdle

MainUnchanged ==
    UNCHANGED <<env, gas_filenames, electricity_filenames, frame, directories, files,
                bucket, exception, calls, results, effects, obj, max_length, returned,
                transformVars, warehouseVars, runsVars>>

\* main(), the first try: start_logging raises or returns; sys.exit(1) if it raised
MainStartLogging ==
    /\ pc = "start_logging"
    /\ \E outcome \in {"ok", "error"} :
        IF outcome = "error"
        THEN /\ steps' = Append(steps, "start_logging raised")
             /\ exit_code' = 1
             /\ pc' = "exited"
        ELSE /\ steps' = Append(steps, "start_logging")
             /\ pc' = "log_environment"
             /\ UNCHANGED exit_code
    /\ UNCHANGED <<log, loop_index>>
    /\ MainUnchanged

\* log_environment up to the call of log_environment_variables; the request to
\* sts is made only in AWS and can fail
MainLogEnvironment ==
    /\ pc = "log_environment"
    /\ LET running_in_aws == is_running_in_aws(env)
           info == <<Msg_EnvironmentInfo,
                     Msg_RunningInContainer \o PyBool(is_running_in_container(env)),
                     Msg_RunningInAws \o PyBool(running_in_aws)>>
       IN  \E outcome \in IF running_in_aws THEN {"ok", "error"} ELSE {"ok"} :
            IF outcome = "error"
            THEN /\ log' = log \o info
                 /\ steps' = Append(steps, "log_environment raised")
                 /\ pc' = "except"
                 /\ UNCHANGED loop_index
            ELSE /\ log' = log \o info
                           \o (IF running_in_aws THEN <<Msg_IdentityRetrieved>> ELSE <<>>)
                           \o <<Msg_CurrentWorkingDirectory \o Cwd>>
                 /\ steps' = Append(steps, "log_environment")
                 /\ pc' = "log_environment_variables"
                 /\ loop_index' = 1
    /\ UNCHANGED exit_code
    /\ MainUnchanged

\* log_environment_variables: one pass of the loop over os.environ.items()
LogEnvironmentVariable ==
    /\ pc = "log_environment_variables"
    /\ loop_index <= Len(env)
    /\ log' = Append(log, EnvMessage(env[loop_index][1], env[loop_index][2]))
    /\ loop_index' = loop_index + 1
    /\ UNCHANGED <<pc, steps, exit_code>>
    /\ MainUnchanged

\* the loop is over: log_environment returns to main()
LogEnvironmentVariablesDone ==
    /\ pc = "log_environment_variables"
    /\ loop_index > Len(env)
    /\ steps' = Append(steps, "log_environment_variables")
    /\ pc' = "check_enabled"
    /\ UNCHANGED <<log, loop_index, exit_code>>
    /\ MainUnchanged

\* main(): sys.exit(0) unless CRUK_ENABLED is Y
MainCheckEnabled ==
    /\ pc = "check_enabled"
    /\ IF GetEnvVarValue(env, Str_CRUK_ENABLED) # Str_Y
       THEN /\ log' = Append(log, Msg_NotEnabled)
            /\ steps' = Append(steps, "not enabled")
            /\ exit_code' = 0
            /\ pc' = "exited"
       ELSE /\ steps' = Append(steps, "enabled")
            /\ pc' = "output_current_time"
            /\ UNCHANGED <<log, exit_code>>
    /\ UNCHANGED loop_index
    /\ MainUnchanged

MainOutputCurrentTime ==
    /\ pc = "output_current_time"
    /\ log' = log \o <<Msg_Hello, Msg_CurrentTime>>
    /\ steps' = Append(steps, "output_current_time")
    /\ pc' = "return"
    /\ UNCHANGED <<loop_index, exit_code>>
    /\ MainUnchanged

\* main(), except Exception: the error is logged and main() goes on to its end
MainExcept ==
    /\ pc = "except"
    /\ log' = Append(log, Msg_Unhandled)
    /\ steps' = Append(steps, "except")
    /\ pc' = "return"
    /\ UNCHANGED <<loop_index, exit_code>>
    /\ MainUnchanged

\* main() returns and the interpreter ends with status 0
MainReturn ==
    /\ pc = "return"
    /\ exit_code' = 0
    /\ pc' = "exited"
    /\ UNCHANGED <<log, loop_index, steps>>
    /\ MainUnchanged

MainNext ==
    \/ MainStartLogging
    \/ MainLogEnvironment
    \/ LogEnvironmentVariable
    \/ LogEnvironmentVariablesDone
    \/ MainCheckEnabled
    \/ MainOutputCurrentTime
    \/ MainExcept
    \/ MainReturn

MainSpec == MainInit /\ [][MainNext]_vars

(***************************************************************************)
(* safe_json: a Python value is a record of its type name and its number,  *)
(* its text or its items; a dict has its keys next to its items, both in   *)
(* insertion order.  No value is shared between two containers.            *)
(***************************************************************************)
IntValue(n) == [type |-> "int", number |-> n, text |-> <<>>, keys |-> <<>>, items |-> <<>>]
StrValue(s) == [type |-> "str", number |-> 0, text |-> s, keys |-> <<>>, items |-> <<>>]
DecimalValue(n) == [type |-> "Decimal", number |-> n, text |-> <<>>, keys |-> <<>>, items |-> <<>>]
ListValue(items) == [type |-> "list", number |-> 0, text |-> <<>>, keys |-> <<>>, items |-> items]
\* a dict of <<key, value>> pairs
DictValue(pairs) ==
    [type |-> "dict", number |-> 0, text |-> <<>>,
     keys |-> [i \in DOMAIN pairs |-> pairs[i][1]],
     items |-> [i \in DOMAIN pairs |-> pairs[i][2]]]
BoolValue(b) ==
    [type |-> "bool", number |-> IF b THEN 1 ELSE 0, text |-> <<>>, keys |-> <<>>, items |-> <<>>]
NoneValue == [type |-> "NoneType", number |-> 0, text |-> <<>>, keys |-> <<>>, items |-> <<>>]

\* the longest list of leaves in the pool
MaxItems == 2

\* 5, Decimal('5') and strings of length 0, 1, 2 and 3
Leaves ==
    {IntValue(5), DecimalValue(5), StrValue(<<>>), StrValue(<<"a">>),
     StrValue(<<"a", "b">>), StrValue(<<"a", "b", "c">>)}
Keys == {<<"k">>, <<"n">>}
FlatLists == {ListValue(items) : items \in ListsUpTo(Leaves, MaxItems)}
FlatDicts ==
    {DictValue(<<>>)}
        \cup {DictValue(<< <<k, v>> >>) : k \in Keys, v \in Leaves}
        \cup {DictValue(<< << <<"k">>, v >>, << <<"n">>, w >> >>) : v \in Leaves, w \in Leaves}
\* a container inside a list or a dict, next to a leaf
Nested ==
    {ListValue(<<c, v>>) : c \in FlatLists \cup FlatDicts, v \in Leaves}
        \cup {DictValue(<< << <<"k">>, v >>, << <<"n">>, c >> >>) :
                c \in FlatLists \cup FlatDicts, v \in Leaves}
\* a string two containers down
Deep ==
    {ListValue(<<DictValue(<< << <<"k">>, ListValue(<<v, w>>) >> >>)>>) :
        v \in Leaves, w \in Leaves}
Values == Leaves \cup FlatLists \cup FlatDicts \cup Nested \cup Deep
MaxLengths == {0 - 1, 0, 1, 2, 3}

\* json.dumps raised TypeError
TypeError == <<"TypeError">>

RECURSIVE JoinText(_, _)
JoinText(list, sep) ==
    IF Len(list) = 0 THEN <<>>
    ELSE IF Len(list) = 1 THEN list[1]
    ELSE list[1] \o sep \o JoinText(Tail(list), sep)

\* s[0:n]: a negative n counts from the end of s
PySlice(s, n) ==
    LET stop == IF n >= 0 THEN (IF n < Len(s) THEN n ELSE Len(s))
                ELSE (IF Len(s) + n > 0 THEN Len(s) + n ELSE 0)
    IN  SubSeq(s, 1, stop)

\* json.dumps(obj): the text, or TypeError once the encoder meets a value of
\* a type it has no encoding for.  The strings of the pool need no escaping.
RECURSIVE JsonDumps(_)
JsonDumps(v) ==
    CASE v.type = "int" -> IntToStr(v.number)
      [] v.type = "str" -> <<"\"">> \o v.text \o <<"\"">>
      [] v.type = "bool" -> IF v.number = 1 THEN <<"t", "r", "u", "e">> ELSE <<"f", "a", "l", "s", "e">>
      [] v.type = "NoneType" -> <<"n", "u", "l", "l">>
      [] v.type = "list" ->
            LET parts == [i \in DOMAIN v.items |-> JsonDumps(v.items[i])]
            IN  IF \E i \in DOMAIN parts : parts[i] = TypeError THEN TypeError
                ELSE <<"[">> \o JoinText(parts, <<",", " ">>) \o <<"]">>
      [] v.type = "dict" ->
            LET parts == [i \in DOMAIN v.items |-> JsonDumps(v.items[i])]
                items == [i \in DOMAIN v.items |->
                            <<"\"">> \o v.keys[i] \o <<"\"", ":", " ">> \o parts[i]]
            IN  IF \E i \in DOMAIN parts : parts[i] = TypeError THEN TypeError
                ELSE <<"{">> \o JoinText(items, <<",", " ">>) \o <<"}">>
      [] OTHER -> TypeError

\* variant: only the type of the value itself is looked at
IsSafeJsonByType(v) == v.type \in {"int", "str", "bool", "NoneType", "list", "dict"}

\* is_safe_json: try json.dumps, True if it returned, False if it raised
IsSafeJson(v) == JsonDumps(v) # TypeError

\* str(obj)
RECURSIVE PyRepr(_)
PyRepr(v) ==
    CASE v.type = "int" -> IntToStr(v.number)
      [] v.type = "str" -> <<"'">> \o v.text \o <<"'">>
      [] v.type = "bool" -> PyBool(v.number = 1)
      [] v.type = "NoneType" -> <<"N", "o", "n", "e">>
      [] v.type = "Decimal" ->
            <<"D", "e", "c", "i", "m", "a", "l", "(", "'">> \o IntToStr(v.number) \o <<"'", ")">>
      [] v.type = "list" ->
            <<"[">> \o JoinText([i \in DOMAIN v.items |-> PyRepr(v.items[i])], <<",", " ">>)
                \o <<"]">>
      [] v.type = "dict" ->
            <<"{">> \o JoinText([i \in DOMAIN v.items |->
                                    <<"'">> \o v.keys[i] \o <<"'", ":", " ">>
                                        \o PyRepr(v.items[i])], <<",", " ">>)
                \o <<"}">>
PyStr(v) ==
    CASE v.type = "str" -> v.text
      [] v.type = "Decimal" -> IntToStr(v.number)
      [] OTHER -> PyRepr(v)

RECURSIVE MakeSafeList(_, _)
RECURSIVE MakeSafeDict(_, _)
RECURSIVE GetSafeJson(_, _)

\* what make_safe_list and make_safe_dict leave in the place of a child
MakeSafeChild(child, n) ==
    CASE child.type = "list" -> MakeSafeList(child, n)
      [] child.type = "dict" -> MakeSafeDict(child, n)
      [] child.type = "str" ->
            IF Len(child.text) > n THEN StrValue(PySlice(child.text, n)) ELSE child
      [] OTHER ->
            IF ~IsSafeJson(child) THEN StrValue(GetSafeJson(child, n)) ELSE child

\* make_safe_list: the list as it is after the call
MakeSafeList(v, n) ==
    [v EXCEPT !.items = [i \in DOMAIN v.items |-> MakeSafeChild(v.items[i], n)]]

\* make_safe_dict: the dict as it is after the call
MakeSafeDict(v, n) ==
    [v EXCEPT !.items = [i \in DOMAIN v.items |-> MakeSafeChild(v.items[i], n)]]

\* the list or dict as get_safe_json and get_object_safe_for_json leave it
MakeSafe(v, n) ==
    CASE v.type = "list" -> MakeSafeList(v, n)
      [] v.type = "dict" -> MakeSafeDict(v, n)
      [] OTHER -> v

\* get_safe_json: the string returned.  No value of the pool is an Enum member
\* or has a __dict__.
GetSafeJson(v, n) ==
    LET direct == IF v.type = "str" THEN v.text ELSE JsonDumps(v)
        made_safe == IF direct = TypeError /\ v.type \in {"list", "dict"}
                     THEN JsonDumps(MakeSafe(v, n))
                     ELSE direct
        s == IF made_safe = TypeError THEN PyStr(v) ELSE made_safe
    IN  IF 0 - 1 < n /\ n < Len(s) THEN PySlice(s, n) ELSE s

\* get_object_safe_for_json: the value returned
GetObjectSafeForJson(v, n) ==
    IF IsSafeJson(v) THEN v
    ELSE CASE v.type \in {"list", "dict"} -> MakeSafe(v, n)
           [] v.type = "str" -> IF Len(v.text) > n THEN StrValue(PySlice(v.text, n)) ELSE v
           [] OTHER -> StrValue(GetSafeJson(v, n))

SafeJsonInit ==
    /\ obj \in Values
    /\ max_length \in MaxLengths
    /\ returned = <<>>
    /\ frame = NoFrame
    /\ pc = "call"
    /\ exception = "none"
    /\ log = <<>>
    /\ exit_code = "running"
    /\ env = <<>>
    /\ steps = <<>>
    /\ loop_index = 0
    /\ gas_filenames = <<>>
    /\ electricity_filenames = <<>>
    /\ directories = {}
    /\ files = EmptyMap
    /\ bucket = EmptyMap
    /\ calls = <<>>
    /\ results = <<>>
    /\ effects = {}
    /\ TransformIdle
    /\ WarehouseIdle
    /\ RunsIdle

SafeJsonUnchanged ==
    UNCHANGED <<env, gas_filenames, electricity_filenames, loop_index, directories, files,
                bucket, steps, calls, results, effects, max_length, log, exit_code,
                transformVars, warehouseVars, runsVars>>

\* the arguments of the call that is made
Called(function, deep_copy) ==
    [function |-> function, obj |-> obj, max_length |-> max_length, deep_copy |-> deep_copy]

CallIsSafeJson ==
    /\ pc = "call"
    /\ frame' = Called("is_safe_json", FALSE)
    /\ returned' = BoolValue(IsSafeJson(obj))
    /\ exception' = "none"
    /\ pc' = "returned"
    /\ UNCHANGED obj
    /\ SafeJsonUnchanged

CallMakeSafeList ==
    /\ pc = "call"
    /\ obj.type = "list"
    /\ frame' = Called("make_safe_list", FALSE)
    /\ obj' = MakeSafeList(obj, max_length)
    /\ returned' = NoneValue
    /\ exception' = "none"
    /\ pc' = "returned"
    /\ SafeJsonUnchanged

CallMakeSafeDict ==
    /\ pc = "call"
    /\ obj.type = "dict"
    /\ frame' = Called("make_safe_dict", FALSE)
    /\ obj' = MakeSafeDict(obj, max_length)
    /\ returned' = NoneValue
    /\ exception' = "none"
    /\ pc' = "returned"
    /\ SafeJsonUnchanged

\* get_safe_json: with deep_copy the caller's object stays as it is; without,
\* it is changed if json.dumps did not take it as it was
CallGetSafeJson ==
    /\ pc = "call"
    /\ \E deep_copy \in BOOLEAN :
        /\ frame' = Called("get_safe_json", deep_copy)
        /\ obj' = IF deep_copy \/ IsSafeJson(obj) THEN obj ELSE MakeSafe(obj, max_length)
    /\ returned' = StrValue(GetSafeJson(obj, max_length))
    /\ exception' = "none"
    /\ pc' = "returned"
    /\ SafeJsonUnchanged

CallGetObjectSafeForJson ==
    /\ pc = "call"
    /\ \E deep_copy \in BOOLEAN :
        /\ frame' = Called("get_object_safe_for_json", deep_copy)
        /\ obj' = IF deep_copy \/ IsSafeJson(obj) THEN obj ELSE MakeSafe(obj, max_length)
    /\ returned' = GetObjectSafeForJson(obj, max_length)
    /\ exception' = "none"
    /\ pc' = "returned"
    /\ SafeJsonUnchanged

SafeJsonNext ==
    \/ CallIsSafeJson
    \/ CallMakeSafeList
    \/ CallMakeSafeDict
    \/ CallGetSafeJson
    \/ CallGetObjectSafeForJson

SafeJsonSpec == SafeJsonInit /\ [][SafeJsonNext]_vars

(***************************************************************************)
(* Properties.                                                             *)
(***************************************************************************)
\* the log of the running call restricted to the four statements of the try
IsTryStatement(entry) ==
    entry[1] \in {"download", "transform", "upload_raw", "upload_processed"}
TryLog == SelectSeq(steps, IsTryStatement)

Logged(step, outcome) == \E i \in 1..Len(steps) : steps[i] = <<step, outcome>>
Returned == steps # <<>> /\ steps[Len(steps)] = <<"return", "ok">>
StepErrors == {"TransferError", "TransformError", "StorageError"}

\* the paths and keys of the filenames of the model, tabulated
Filenames == GasFilenamePool \cup ElectricityFilenamePool
RawPathOf == [f \in Filenames |-> RawFilePath(f)]
ProcessedPathOf == [f \in Filenames |-> ProcessedFilePath(f)]
RawKeyOf == [f \in Filenames |-> RawObjectKey(RawFilePath(f))]
ProcessedKeyOf == [f \in Filenames |-> ProcessedObjectKey(ProcessedFilePath(f))]

\* this run wrote the objects raw/<filename> and processed/<filename>
WrittenToBucket(filename) ==
    LET raw_key == RawKeyOf[filename]
        processed_key == ProcessedKeyOf[filename]
    IN  /\ raw_key \in DOMAIN bucket
        /\ bucket[raw_key].kind = "raw" /\ bucket[raw_key].complete
        /\ processed_key \in DOMAIN bucket
        /\ bucket[processed_key].kind = "processed" /\ bucket[processed_key].complete

\* C1 -- per-file isolation: an exception raised by the download, the transform
\* or an upload of an entry is caught in process_file (control reaches the
\* except clause and then the code after the try), it is never the exception
\* that leaves process_files, and every entry whose four steps succeeded has
\* both its raw/ and processed/ object written to the bucket, whatever happened
\* to the other entries.  (The exceptions that do leave process_files are the
\* configuration errors and the year-parsing error, see C4 and C6.)
C1_PerFileIsolation ==
    /\ \A i \in 1..Len(TryLog) :
          TryLog[i][2] # "ok" =>
             /\ pc # "raised"
             /\ \/ pc = "except" /\ exception \in StepErrors
                \/ /\ pc # "except" /\ exception = "none"
                   /\ \E e \in StepErrors : Logged("except", e)
    /\ pc = "raised" => exception \notin StepErrors
    /\ \A k \in 1..Len(results) :
          results[k] = "ok" => WrittenToBucket(calls[k].filename)
    /\ pc = "done" => Len(results) = Len(calls)

\* three entries, the second one fails, the first and the third are uploaded
C1_Witness ==
    /\ pc = "done"
    /\ results = <<"ok", "failed", "ok">>
    /\ Logged("return", "ok")
    /\ WrittenToBucket(calls[1].filename) /\ WrittenToBucket(calls[3].filename)
    /\ calls[1].filename # calls[3].filename

\* C2 -- within one call the statements of the try block run in the order
\* download, transform, upload raw, upload processed, each at most once, and
\* a statement runs only if every earlier one returned without raising.
C2_StepOrder ==
    /\ Len(TryLog) <= 4
    /\ \A i \in 1..Len(TryLog) :
          /\ TryLog[i][1] = <<"download", "transform", "upload_raw", "upload_processed">>[i]
          /\ i < Len(TryLog) => TryLog[i][2] = "ok"

\* a call whose transform failed after a download that succeeded has returned
C2_Witness ==
    /\ Returned
    /\ TryLog = <<<<"download", "ok">>, <<"transform", "error_mid_write">>>>

\* C3 -- no partial rollback: when the raw upload of the running call succeeded
\* and its processed upload failed, the raw object written by the call stays in
\* the bucket, and no step ever removes an object from the bucket.
C3_NoRollback ==
    /\ [](Logged("upload_raw", "ok") /\ Logged("upload_processed", "error") =>
            /\ RawObjectKey(frame.raw_file_path) \in DOMAIN bucket
            /\ bucket[RawObjectKey(frame.raw_file_path)] = RawContent(frame.file_url, TRUE))
    /\ [][DOMAIN bucket \subseteq DOMAIN bucket']_vars

\* the call has returned after a failed processed upload, the raw object is there
C3_Witness ==
    /\ Returned
    /\ Logged("upload_raw", "ok") /\ Logged("upload_processed", "error")
    /\ bucket[RawObjectKey(frame.raw_file_path)] = RawContent(frame.file_url, TRUE)
    /\ frame.filename = Electricity1999_csv_gz

\* the filenames with no integer left where the year should be
BadYearFilenames == {f \in Filenames : ~ExtractYear(f).ok}

\* the latest call was made with such a filename
LastCallYearFails ==
    /\ calls # <<>>
    /\ Len(calls[Len(calls)].root_url) > 0
    /\ calls[Len(calls)].filename \in BadYearFilenames

\* C4 -- a year-parsing failure is not caught by the try/except of
\* process_file: the ValueError leaves process_file (and process_files) and
\* nothing else was attempted for the entry: no download, no transform, no
\* upload, no clean-up, no except clause.
C4_YearErrorPropagates ==
    LastCallYearFails =>
        /\ pc = "raised"
        /\ exception = "ValueError: int"
        /\ steps = <<<<"year", "error">>>>

\* the year of the second entry cannot be parsed and the error has propagated
C4_Witness ==
    /\ Len(calls) = 2
    /\ calls[2].filename = Badname_csv_gz
    /\ results = <<"ok">>
    /\ pc = "raised"
    /\ exception = "ValueError: int"

\* one of the four configuration values is empty or unset
ConfigMissing ==
    \/ Len(env.DATA_SOURCE_GAS_ROOT_URL) = 0
    \/ Len(env.DATA_SOURCE_GAS_FILENAMES) = 0
    \/ Len(env.DATA_SOURCE_ELECTRICITY_ROOT_URL) = 0
    \/ Len(env.DATA_SOURCE_ELECTRICITY_FILENAMES) = 0

\* the entries of the two manifests: the gas filenames, then the electricity ones
ManifestEntries ==
    [k \in 1..(Len(gas_filenames) + Len(electricity_filenames)) |->
        IF k <= Len(gas_filenames)
        THEN [energy_type |-> "gas", root_url |-> env.DATA_SOURCE_GAS_ROOT_URL,
              filename |-> gas_filenames[k]]
        ELSE [energy_type |-> "electricity",
              root_url |-> env.DATA_SOURCE_ELECTRICITY_ROOT_URL,
              filename |-> electricity_filenames[k - Len(gas_filenames)]]]

\* C5 as stated -- a year-parsing failure is raised inside the try block and
\* swallowed for that file: the batch does not abort and goes through every
\* entry of both manifests.
C5_YearErrorSwallowed ==
    /\ LastCallYearFails => pc # "raised"
    /\ pc \in {"done", "raised"} /\ ~ConfigMissing => Len(calls) = Len(ManifestEntries)

\* C5 as amended -- a year-parsing failure is raised before the try block and
\* is not caught: it ends process_file and process_files, the entry never
\* reaches its completion log, the run stops there and no later entry of the
\* gas or electricity manifest is processed.
C5_YearErrorAbortsBatch ==
    LastCallYearFails =>
        /\ pc = "raised" /\ exception = "ValueError: int"
        /\ ~ENABLED Next
        /\ Len(results) = Len(calls) - 1
        /\ ~Logged("except", "ValueError: int")
        /\ \A k \in 1..Len(ManifestEntries) :
              ManifestEntries[k].filename \in BadYearFilenames => Len(calls) <= k

\* the run stopped at a first entry that cannot be parsed, with entries left
C5_Witness ==
    /\ pc = "raised"
    /\ LastCallYearFails
    /\ Len(calls) = 1
    /\ Len(ManifestEntries) = 3
    /\ ManifestEntries[3].energy_type = "electricity"
    /\ bucket = StaleBucket

\* C6 -- configuration validation is fail-fast: with any of the four values
\* empty, process_files raises the configuration error from one of the two
\* checks, and nothing has been done by then: no call of process_file, no
\* download, transform, upload or deletion, no directory created.
C6_ConfigFailFast ==
    ConfigMissing =>
        /\ pc \in {"check_gas", "check_electricity", "raised"}
        /\ pc = "raised" =>
              exception \in {"ValueError: DATA_SOURCE_GAS_ROOT_URL",
                             "ValueError: DATA_SOURCE_GAS_FILENAMES",
                             "ValueError: DATA_SOURCE_ELECTRICITY_ROOT_URL",
                             "ValueError: DATA_SOURCE_ELECTRICITY_FILENAMES"}
        /\ calls = <<>> /\ steps = <<>> /\ results = <<>>
        /\ effects = {}
        /\ directories = {} /\ files = EmptyMap /\ bucket = StaleBucket

\* the gas configuration is complete, the electricity filenames are missing
C6_Witness ==
    /\ pc = "raised"
    /\ exception = "ValueError: DATA_SOURCE_ELECTRICITY_FILENAMES"
    /\ Len(Split(env.DATA_SOURCE_GAS_FILENAMES, "|")) = 2
    /\ effects = {} /\ calls = <<>>

InCall ==
    pc \in {"download", "transform", "upload_raw", "upload_processed", "except",
            "cleanup_check", "cleanup_raw", "cleanup_processed", "log_processed"}

\* C7 -- with a valid configuration (the four values set, a year in every
\* filename) process_files cannot end in an exception; the calls of
\* process_file are the gas filenames first and then the electricity filenames,
\* each group in manifest order, one call per filename when the run ends, and
\* a call is made only when the previous call has returned.
C7_SequentialInOrder ==
    /\ pc = "raised" => ConfigMissing \/ LastCallYearFails
    /\ Len(calls) <= Len(ManifestEntries)
    /\ \A k \in 1..Len(calls) : calls[k] = ManifestEntries[k]
    /\ InCall => Len(calls) = Len(results) + 1
    /\ pc = "gas_loop" =>
          Len(calls) = loop_index - 1 /\ Len(results) = Len(calls)
    /\ pc = "electricity_loop" =>
          Len(calls) = Len(gas_filenames) + loop_index - 1 /\ Len(results) = Len(calls)
    /\ pc = "done" =>
          Len(calls) = Len(ManifestEntries) /\ Len(results) = Len(calls)

\* two gas files and one electricity file have been processed
C7_Witness ==
    /\ pc = "done"
    /\ Len(calls) = 3
    /\ calls[1].energy_type = "gas" /\ calls[2].energy_type = "gas"
    /\ calls[3].energy_type = "electricity"
    /\ calls[1].filename # calls[3].filename

\* DELETE_DATA_FILES is Y in either letter case
CleanupOn == env.DELETE_DATA_FILES \in {<<"Y">>, <<"y">>}

\* C8 as stated -- with the clean-up flag enabled, neither local file of the
\* entry exists once process_file has returned.
C8_CleanupLeavesNoFile ==
    CleanupOn /\ Returned =>
        /\ frame.raw_file_path \notin DOMAIN files
        /\ frame.processed_file_path \notin DOMAIN files

\* C8 as amended -- with the clean-up flag enabled, once process_file has
\* returned each of the two local files is gone unless os.remove raised for
\* it, in which case try_cleanup_file logged the warning and the file stays.
C8_CleanupLeavesNoFileUnlessRemoveFailed ==
    CleanupOn /\ Returned =>
        /\ Attempted("cleanup_raw") /\ Attempted("cleanup_processed")
        /\ frame.raw_file_path \in DOMAIN files <=> Logged("cleanup_raw", "error")
        /\ frame.processed_file_path \in DOMAIN files <=> Logged("cleanup_processed", "error")

\* flag 'y': a failed transform left a partial processed file, both files are gone
C8_Witness ==
    /\ Returned
    /\ env.DELETE_DATA_FILES = <<"y">>
    /\ Logged("transform", "error_mid_write")
    /\ Logged("cleanup_raw", "deleted") /\ Logged("cleanup_processed", "deleted")
    /\ frame.raw_file_path \notin DOMAIN files
    /\ frame.processed_file_path \notin DOMAIN files

\* C9 -- with the clean-up flag disabled nothing is deleted: try_cleanup_file
\* is not called, and the local raw and processed files of every entry that
\* was processed successfully are on disk.
C9_NoCleanupKeepsFiles ==
    ~CleanupOn =>
        /\ "delete" \notin effects
        /\ ~Attempted("cleanup_raw") /\ ~Attempted("cleanup_processed")
        /\ \A k \in 1..Len(results) :
              results[k] = "ok" =>
                 /\ RawPathOf[calls[k].filename] \in DOMAIN files
                 /\ ProcessedPathOf[calls[k].filename] \in DOMAIN files

\* flag 'N': three entries processed successfully, their files are on disk
C9_Witness ==
    /\ pc = "done"
    /\ env.DELETE_DATA_FILES = <<"N">>
    /\ results = <<"ok", "ok", "ok">>
    /\ \A k \in 1..3 : RawPathOf[calls[k].filename] \in DOMAIN files
    /\ \A k \in 1..3 : files[ProcessedPathOf[calls[k].filename]].complete

\* C10 -- an error of os.remove in try_cleanup_file is not fatal: it does not
\* leave try_cleanup_file, process_file or process_files, the deletion of the
\* processed file is still attempted after a failed deletion of the raw file,
\* and the call returns to the loop.
C10_CleanupErrorsNonFatal ==
    /\ Logged("cleanup_raw", "error") \/ Logged("cleanup_processed", "error") =>
          /\ exception = "none"
          /\ pc \in {"cleanup_processed", "log_processed", "gas_loop",
                     "electricity_loop", "done"}
    /\ Logged("cleanup_raw", "error") /\ pc # "cleanup_processed" =>
          Attempted("cleanup_processed")
    /\ pc = "raised" => exception # "OSError"

\* both deletions of the first entry failed, the second entry was processed
C10_Witness ==
    /\ pc = "done"
    /\ CleanupOn
    /\ Len(results) = 2
    /\ calls[1].filename # calls[2].filename
    /\ RawPathOf[calls[1].filename] \in DOMAIN files
    /\ ProcessedPathOf[calls[1].filename] \in DOMAIN files
    /\ results[2] = "ok"

(***************************************************************************)
(* Properties of try_process_file (TransformSpec).                         *)
(***************************************************************************)
\* the header has each of the five raw field names
HasRequiredFields(fieldnames) ==
    \A i \in 1..Len(input_field_names) : HasKey(fieldnames, input_field_names[i])

\* the lines of the raw file that have cells: its data rows
HasCells(line) == line # <<>>
DataRows(rd) == SelectSeq(rd.lines, HasCells)
DataRowsRead(rd) == SelectSeq(SubSeq(rd.lines, 1, rd.line_num), HasCells)

\* the cell of a data row under the header field name, by column position;
\* the empty string when the row ends before that column
ColumnOf(fieldnames, name) == CHOOSE i \in 1..Len(fieldnames) : fieldnames[i] = name
CellOf(fieldnames, line, name) ==
    IF ColumnOf(fieldnames, name) <= Len(line)
    THEN line[ColumnOf(fieldnames, name)]
    ELSE <<>>

\* C11 -- schema mapping: for a raw file whose header has the five required
\* field names, try_process_file never raises KeyError, writes the header of
\* the seven output field names first and then one row per data row, in input
\* order; row i carries the energy_type and the year of the call and the
\* cells of data row i found under POSTCODE, Number of meters, Consumption
\* (kWh), Mean consumption (kWh) and Median consumption (kWh), unchanged (a
\* cell the data row does not have is written empty).  When the function has
\* returned, every data row has been written: N data rows give N rows.
C11_SchemaMapping ==
    HasRequiredFields(reader.fieldnames) =>
       /\ pc = "raised" => exception = "OSError" /\ writer = <<>>
       /\ pc \in {"rows", "returned"} =>
             /\ writer[1] = output_field_names
             /\ Len(writer) = 1 + row_count
             /\ row_count = Len(DataRowsRead(reader))
             /\ \A i \in 1..row_count :
                   LET line == DataRows(reader)[i]
                   IN  writer[i + 1] =
                          << frame.energy_type,
                             IntToStr(frame.year),
                             CellOf(reader.fieldnames, line, "POSTCODE"),
                             CellOf(reader.fieldnames, line, "Number of meters"),
                             CellOf(reader.fieldnames, line, "Consumption (kWh)"),
                             CellOf(reader.fieldnames, line, "Mean consumption (kWh)"),
                             CellOf(reader.fieldnames, line, "Median consumption (kWh)") >>
       /\ pc = "returned" => row_count = Len(DataRows(reader))

\* two different data rows under a header with the columns in another order
\* were transformed and the function returned
C11_Witness ==
    /\ pc = "returned"
    /\ HasRequiredFields(reader.fieldnames)
    /\ reader.fieldnames # input_field_names
    /\ row_count = 2
    /\ writer[2] # writer[3]
    /\ Len(writer) = 3

\* C12 -- as claimed: try_process_file does not return normally for a raw
\* file whose header lacks one of the five required field names, whatever
\* the number of its data rows.
C12_MissingFieldFails ==
    pc = "returned" => HasRequiredFields(reader.fieldnames)

(***************************************************************************)
(* Properties of the URL and of the year in process_file (ProcessFileSpec).*)
(***************************************************************************)
\* the filename has the form <EnergyType><Year>.csv.gz: the type token gas or
\* electricity and the extension in any letter case, the year one decimal
\* digit or more
Str_csv_gz == <<".", "c", "s", "v", ".", "g", "z">>
ConformsWithType(filename, type) ==
    LET lowered == Lower(filename)
        yearFrom == Len(type) + 1
        yearTo == Len(filename) - Len(Str_csv_gz)
    IN  /\ StartsWith(lowered, type)
        /\ yearFrom <= yearTo
        /\ SubSeq(lowered, yearTo + 1, Len(lowered)) = Str_csv_gz
        /\ \A i \in yearFrom..yearTo : IsDigit(filename[i])
Conforms(filename) ==
    ConformsWithType(filename, Str_gas) \/ ConformsWithType(filename, Str_electricity)

\* the digits between the type token and the extension of a conforming filename
YearDigits(filename) ==
    LET type == IF ConformsWithType(filename, Str_gas) THEN Str_gas ELSE Str_electricity
    IN  SubSeq(filename, Len(type) + 1, Len(filename) - Len(Str_csv_gz))

\* process_file has got past the year / has left with the error of int()
YearParsed == pc = "download"
YearFailed == pc = "raised" /\ exception = "ValueError: int"

\* C13 -- as claimed: year extraction fails for every filename that does not
\* conform to <EnergyType><Year>.csv.gz.
C13_NonConformingFails ==
    pc # "call" /\ Len(frame.root_url) > 0 /\ ~Conforms(frame.filename) => YearFailed

\* C14 -- for every filename <EnergyType><Year>.csv.gz, with gas or electricity
\* and the extension in any letter case and Year a decimal number, the year
\* that process_file extracts is the number Year; Gas2020.csv.gz gives 2020,
\* Electricity1999.csv.gz gives 1999, gas2020.CSV.GZ gives 2020, and
\* Badname.csv.gz fails with the ValueError of int().
C14_YearOfConformingFilename ==
    pc # "call" /\ Len(frame.root_url) > 0 =>
       /\ Conforms(frame.filename) =>
             YearParsed /\ frame.year = DigitsValue(YearDigits(frame.filename))
       /\ frame.filename = Gas2020_csv_gz => YearParsed /\ frame.year = 2020
       /\ frame.filename = Electricity1999_csv_gz => YearParsed /\ frame.year = 1999
       /\ frame.filename = Str_gas \o <<"2", "0", "2", "0">> \o <<".", "C", "S", "V", ".", "G", "Z">>
             => YearParsed /\ frame.year = 2020
       /\ frame.filename = Badname_csv_gz => YearFailed

\* GAS007.CSV.GZ was parsed
C14_Witness ==
    /\ YearParsed
    /\ frame.filename = <<"G", "A", "S", "0", "0", "7", ".", "C", "S", "V", ".", "G", "Z">>
    /\ frame.year = 7

\* C15 -- the URL is the same whether or not the root URL ends with a slash:
\* for a non-empty root r that does not end with '/', process_file called
\* with r and called with r + '/' builds r + '/' + filename, in which one '/'
\* stands between the root and the filename.
C15_TrailingSlashIdempotent ==
    \A r \in BareRootUrls :
       /\ pc # "call" /\ frame.root_url \in {r, r \o <<"/">>} =>
             frame.file_url = r \o <<"/">> \o frame.filename
       /\ BuildUrl(r, frame.filename) = BuildUrl(r \o <<"/">>, frame.filename)
       /\ BuildUrl(r, frame.filename) = r \o <<"/">> \o frame.filename

\* the call was made with a root URL that ends with a slash
C15_Witness ==
    /\ pc = "download"
    /\ frame.root_url = ElectricityRootUrl
    /\ frame.filename = Electricity1999_csv_gz
    /\ frame.file_url = ElectricityRootUrl \o Electricity1999_csv_gz

(***************************************************************************)
(* Properties of the uploads (Spec).                                       *)
(***************************************************************************)
\* the upload statement that control is at, its local file and its object key
AtUpload == pc \in {"upload_raw", "upload_processed"}
UploadedPath == IF pc = "upload_raw" THEN frame.raw_file_path ELSE frame.processed_file_path
UploadedKey == IF pc = "upload_raw" THEN RawObjectKey(frame.raw_file_path)
               ELSE ProcessedObjectKey(frame.processed_file_path)

\* C16 -- overwrite semantics and idempotence of the upload: an upload of an
\* existing local file can succeed whether or not the key already holds an
\* object; a successful upload leaves under the key exactly the content of the
\* uploaded local file and leaves every other object alone, so after any
\* sequence of successful uploads the object is the content last uploaded;
\* uploading to a key the content it already holds changes nothing in the
\* bucket; and nothing but a successful upload changes the bucket.
C16_UploadOverwrites ==
    /\ [](AtUpload /\ UploadedPath \in DOMAIN files =>
             ENABLED ((TryUploadRawFile \/ TryUploadProcessedFile) /\ exception' = "none"))
    /\ [][/\ AtUpload /\ pc' = NextStep(pc) =>
                /\ bucket' = Put(bucket, UploadedKey, files[UploadedPath])
                /\ UploadedKey \in DOMAIN bucket /\ bucket[UploadedKey] = files[UploadedPath]
                      => bucket' = bucket
          /\ bucket' # bucket => AtUpload /\ pc' = NextStep(pc)]_vars

\* the same entry was processed twice and both of its files were uploaded
\* twice, the second time over the objects of the first time
C16_Witness ==
    /\ Len(calls) = 2
    /\ calls[1] = calls[2]
    /\ results = <<"ok">>
    /\ Succeeded("upload_raw")
    /\ Succeeded("upload_processed")
    /\ bucket[RawKeyOf[calls[1].filename]].kind = "raw"

(***************************************************************************)
(* Properties of concurrent batch runs (RunsSpec).                         *)
(***************************************************************************)
AllRunsDone == \A r \in RunIds : runs[r].pc = "done"

\* the object under key is one that a single run over the manifest can leave
\* there: the object found at the start (the entry failed before its upload)
\* or the whole file of the entry
AsAfterSingleRun(key, expected) ==
    IF key \in DOMAIN bucket
    THEN bucket[key] = expected \/ (key \in DOMAIN StaleBucket /\ bucket[key] = StaleBucket[key])
    ELSE key \notin DOMAIN StaleBucket

ObjectsAsAfterSingleRun ==
    \A i \in 1..Len(RunEntries) :
       /\ AsAfterSingleRun(RawKeyOf[RunEntries[i].filename], ExpectedRaw(RunEntries[i]))
       /\ AsAfterSingleRun(ProcessedKeyOf[RunEntries[i].filename],
                           ExpectedProcessed(RunEntries[i]))

\* C17 -- as claimed: once all the concurrent runs have finished, every
\* object raw/<filename> and processed/<filename> is as after a single run,
\* under every interleaving of the steps of the runs.
C17_RunsConverge == AllRunsDone => ObjectsAsAfterSingleRun

\* C17, amended -- runs that do not have the same working directory converge:
\* at every moment every object raw/<filename> and processed/<filename> is one
\* that a single run can leave, and once all runs have finished, the objects
\* of an entry that some run processed without error are the whole raw file
\* and the whole processed file of that entry.
C17_RunsWithOwnDirectoryConverge ==
    ~shared_directory =>
       /\ ObjectsAsAfterSingleRun
       /\ AllRunsDone =>
             \A i \in 1..Len(RunEntries) :
                (\E r \in RunIds : runs[r].outcomes[i] = "ok") =>
                   /\ bucket[RawKeyOf[RunEntries[i].filename]] = ExpectedRaw(RunEntries[i])
                   /\ bucket[ProcessedKeyOf[RunEntries[i].filename]] =
                         ExpectedProcessed(RunEntries[i])

\* two runs with their own directories have finished; the first entry failed
\* in one of them and succeeded in the other
C17_Witness ==
    /\ ~shared_directory
    /\ AllRunsDone
    /\ runs["A"].outcomes = <<"failed", "ok">>
    /\ runs["B"].outcomes = <<"ok", "ok">>
    /\ bucket[RawKeyOf[Gas2020_csv_gz]] = ExpectedRaw(RunEntries[1])

(***************************************************************************)
(* Properties of load_snowflake (WarehouseSpec).                           *)
(***************************************************************************)
\* the last statement of the running call failed
LastStatementFailed ==
    statements # <<>> /\ statements[Len(statements)][2] # "ok"

\* C18 -- warehouse failures are contained: an exception of the version
\* query, of the connection, of the TRUNCATE or of the COPY INTO goes to the
\* except clause of load_snowflake and no further; it never leaves
\* load_snowflake, and from every position of the call control can go on
\* until load_snowflake has returned.
C18_WarehouseFailuresContained ==
    /\ pc # "raised"
    /\ exception # "none" => pc = "except"
    /\ LastStatementFailed => pc \in {"except", "returned"}
    /\ pc = "returned" => exception = "none" /\ Len(results) > 0
    /\ pc # "returned" => ENABLED WarehouseNext

\* the COPY INTO failed after the TRUNCATE, and load_snowflake has returned
C18_Witness ==
    /\ pc = "returned"
    /\ results = <<"failed">>
    /\ Len(statements) = 3
    /\ statements[3] = <<"COPY INTO", "error">>
    /\ table = EmptyMap

\* C19 -- the statements of one load are issued in the order version query,
\* TRUNCATE, COPY INTO, and a statement is issued only after every statement
\* before it has succeeded: the TRUNCATE only after the version query, the
\* COPY INTO only after the TRUNCATE.
C19_StatementOrder ==
    LET order == <<"SELECT current_version()", "TRUNCATE TABLE", "COPY INTO">>
    IN  /\ Len(statements) <= Len(order)
        /\ \A i \in 1..Len(statements) : statements[i][1] = order[i]
        /\ \A i \in 1..(Len(statements) - 1) : statements[i][2] = "ok"
        /\ pc \in {"connect", "truncate"} => statements = << <<order[1], "ok">> >>
        /\ pc = "copy" => statements = << <<order[1], "ok">>, <<order[2], "ok">> >>

\* the three statements were issued and succeeded
C19_Witness ==
    /\ pc = "finished"
    /\ Len(statements) = 3
    /\ \A i \in 1..3 : statements[i][2] = "ok"

\* one copy of the rows of each file that is under processed/ in the bucket
FullReload == [f \in StagedFiles |-> 1]
LoadSucceeded ==
    \/ pc = "finished"
    \/ pc = "returned" /\ results # <<>> /\ results[Len(results)] = "ok"

\* C20 -- full reload: after a successful load the table holds exactly the
\* rows of the objects that are under processed/ in the bucket, once each,
\* objects of earlier runs included and raw/ objects excluded, whatever the
\* table held before; a second load over an unchanged bucket leaves the
\* same table.
C20_FullReload == LoadSucceeded => table = FullReload

\* two loads in a row succeeded over the bucket an earlier run left
C20_Witness ==
    /\ pc = "returned"
    /\ results = <<"ok", "ok">>
    /\ bucket = StaleBucket
    /\ table = FullReload
    /\ DOMAIN table = {<<ProcessedKeyOf[Gas2020_csv_gz], StaleContent>>}

\* C22 -- no automatic retry: a call of process_file is made for the next
\* position of the manifests only (gas, then electricity), so no position is
\* visited twice in a run, and within one call each of download, transform,
\* raw upload and processed upload is executed at most once and none of them
\* is executed after one of them failed.
C22_NoRetry ==
    [][IF calls' # calls
       THEN /\ Len(calls') = Len(calls) + 1
            /\ Len(calls') <= Len(ManifestEntries)
            /\ calls'[Len(calls')] = ManifestEntries[Len(calls')]
            /\ TryLog' = <<>>
       ELSE \/ TryLog' = TryLog
            \/ /\ Len(TryLog') = Len(TryLog) + 1
               /\ SubSeq(TryLog', 1, Len(TryLog)) = TryLog
               /\ ~Attempted(TryLog'[Len(TryLog')][1])
               /\ \A i \in 1..Len(TryLog) : TryLog[i][2] = "ok"]_vars

\* the run ended after three entries, the first of which failed in its
\* download and was followed by two entries that succeeded
C22_Witness ==
    /\ pc = "done"
    /\ Len(calls) = 3
    /\ results = <<"failed", "ok", "ok">>
    /\ "download" \in effects

\* both configuration checks of process_files have passed
ConfigurationValidated == pc = "ensure_directories"
\* every filename of the two manifests yields a year
EveryYearParses ==
    \A k \in 1..Len(ManifestEntries) : ManifestEntries[k].filename \notin BadYearFilenames
\* the two loops are over and every entry reached its completion log
RunComplete == pc = "done" /\ Len(results) = Len(ManifestEntries)

ObjectsWritten ==
    {key \in DOMAIN bucket' : key \notin DOMAIN bucket \/ bucket'[key] # bucket[key]}

\* C27 -- upload guard: within a call of process_file the raw upload is
\* executed only after the download and the transform of that call succeeded,
\* and the processed upload only after the raw upload of that call succeeded;
\* every object a step writes is raw/<filename> or processed/<filename> of the
\* running call, written by the matching upload, and it is a whole file: the
\* raw file that the download of this call wrote to its end, or the processed
\* file that the transform of this call wrote to its end from that raw file.
C27_UploadGuard ==
    /\ [](/\ Attempted("upload_raw") => Succeeded("download") /\ Succeeded("transform")
          /\ Attempted("upload_processed") => Succeeded("upload_raw"))
    /\ [][\A key \in ObjectsWritten :
            \/ /\ pc = "upload_raw"
               /\ key = RawObjectKey(RawFilePath(frame.filename))
               /\ Succeeded("download") /\ Succeeded("transform")
               /\ bucket'[key] = RawContent(frame.file_url, TRUE)
            \/ /\ pc = "upload_processed"
               /\ key = ProcessedObjectKey(ProcessedFilePath(frame.filename))
               /\ Succeeded("upload_raw")
               /\ bucket'[key] = ProcessedContent(RawContent(frame.file_url, TRUE),
                                                  frame.energy_type, frame.year, TRUE)]_vars

\* the second entry has uploaded both of its files, after a first entry that
\* failed with a raw file written in part
C27_Witness ==
    /\ pc = "cleanup_check"
    /\ results = <<"failed">>
    /\ Succeeded("upload_raw") /\ Succeeded("upload_processed")
    /\ \E path \in DOMAIN files : ~files[path].complete
    /\ bucket[RawKeyOf[frame.filename]] = RawContent(frame.file_url, TRUE)

\* the connectivity test of the running call of load_snowflake succeeded
ProbeSucceeded ==
    statements # <<>> /\ statements[1] = <<"SELECT current_version()", "ok">>
\* the latest call of load_snowflake truncated the table and failed in COPY INTO
CopyFailedAfterTruncate ==
    /\ Len(statements) = 3
    /\ statements[2] = <<"TRUNCATE TABLE", "ok">>
    /\ statements[3] = <<"COPY INTO", "error">>

\* C28 -- the contents of the target table change only in a call of
\* load_snowflake whose connectivity test succeeded; and when the TRUNCATE
\* succeeded and the COPY INTO failed, load_snowflake returns normally (the
\* error is logged, no exception is left) with the table empty: what the table
\* held before is not put back.
C28_TruncateNotRolledBack ==
    /\ [][table' # table => ProbeSucceeded]_vars
    /\ [](CopyFailedAfterTruncate =>
            /\ table = EmptyMap
            /\ pc \in {"except", "returned"}
            /\ pc = "returned" =>
                  exception = "none" /\ results[Len(results)] = "failed")

\* a first load filled the table from the processed files of the bucket; the
\* second load truncated it, failed in COPY INTO and has returned
C28_Witness ==
    /\ pc = "returned"
    /\ results = <<"ok", "failed">>
    /\ CopyFailedAfterTruncate
    /\ StagedFiles # {}
    /\ table = EmptyMap

\* control is inside snowflake_load_data, between its connect and its return
InSnowflakeLoadData == pc \in {"truncate", "copy"}

EntriesWith(filename) == {k \in 1..Len(calls) : calls[k].filename = filename}
Latest(S) == CHOOSE k \in S : \A j \in S : j <= k
\* what entry k uploads when its four steps succeed
RawContentOf(k) == RawContent(BuildUrl(calls[k].root_url, calls[k].filename), TRUE)
ProcessedContentOf(k) ==
    ProcessedContent(RawContentOf(k), calls[k].energy_type,
                     YearOfFilename[calls[k].filename].value, TRUE)
\* raw/<filename> and processed/<filename> hold what entry k uploads
ObjectsOfEntry(filename, k) ==
    /\ Str_raw \o <<"/">> \o filename \in DOMAIN bucket
    /\ bucket[Str_raw \o <<"/">> \o filename] = RawContentOf(k)
    /\ Str_processed \o <<"/">> \o filename \in DOMAIN bucket
    /\ bucket[Str_processed \o <<"/">> \o filename] = ProcessedContentOf(k)
\* the paths and keys are made of the filename only, and no two filenames
\* have a path or a key in common
FilenameIsTheKey ==
    /\ \A f \in Filenames :
          /\ RawKeyOf[f] = Str_raw \o <<"/">> \o f
          /\ ProcessedKeyOf[f] = Str_processed \o <<"/">> \o f
          /\ Basename(RawPathOf[f]) = f /\ Basename(ProcessedPathOf[f]) = f
    /\ \A f, g \in Filenames :
          f # g => /\ {RawKeyOf[f], ProcessedKeyOf[f]} \cap {RawKeyOf[g], ProcessedKeyOf[g]} = {}
                   /\ {RawPathOf[f], ProcessedPathOf[f]}
                         \cap {RawPathOf[g], ProcessedPathOf[g]} = {}
    /\ InCall => /\ frame.raw_file_path = RawPathOf[frame.filename]
                 /\ frame.processed_file_path = ProcessedPathOf[frame.filename]

\* C30 as stated -- the filename alone determines the paths and the keys
\* raw/<filename> and processed/<filename>, whatever the energy type; distinct
\* filenames share no key; and after the run the two objects of a filename
\* hold the content written by the last successfully processed entry with
\* that filename.
C30_LastSuccessfulEntryWins ==
    /\ FilenameIsTheKey
    /\ pc = "done" =>
          \A f \in Filenames :
             LET ok == {k \in EntriesWith(f) : results[k] = "ok"}
             IN  ok # {} => ObjectsOfEntry(f, Latest(ok))

\* C30 as amended -- the filename alone determines the paths and the keys,
\* whatever the energy type, and distinct filenames share no key; an upload
\* that succeeds sets the object raw/<filename> (processed/<filename>) of its
\* entry to what that entry downloaded (transformed) and changes no other
\* object, and nothing else changes the bucket, so each object holds what the
\* last successful upload of it wrote; after the run the two objects of a
\* filename hold the content of the last entry with that filename if that
\* entry was processed successfully.
C30_LastUploadWins ==
    /\ [](/\ FilenameIsTheKey
          /\ pc = "done" =>
                \A f \in Filenames :
                   EntriesWith(f) # {} /\ results[Latest(EntriesWith(f))] = "ok"
                      => ObjectsOfEntry(f, Latest(EntriesWith(f))))
    /\ [][bucket' =
            IF steps' = Append(steps, <<"upload_raw", "ok">>)
            THEN Put(bucket, Str_raw \o <<"/">> \o frame.filename,
                     RawContent(frame.file_url, TRUE))
            ELSE IF steps' = Append(steps, <<"upload_processed", "ok">>)
            THEN Put(bucket, Str_processed \o <<"/">> \o frame.filename,
                     ProcessedContent(RawContent(frame.file_url, TRUE),
                                      frame.energy_type, frame.year, TRUE))
            ELSE bucket]_vars

\* Gas2020.csv.gz was listed in the gas and in the electricity manifest and
\* both entries succeeded: the objects are those of the electricity entry
C30_Witness ==
    /\ pc = "done"
    /\ Len(calls) = 2 /\ results = <<"ok", "ok">>
    /\ calls[1].filename = Gas2020_csv_gz /\ calls[1].energy_type = "gas"
    /\ calls[2].filename = Gas2020_csv_gz /\ calls[2].energy_type = "electricity"
    /\ ObjectsOfEntry(Gas2020_csv_gz, 2)
    /\ ~ObjectsOfEntry(Gas2020_csv_gz, 1)

\* a step of main()'s start-up raised: start_logging, or log_environment
StartupError ==
    \E i \in DOMAIN steps : steps[i] \in {"start_logging raised", "log_environment raised"}

\* C21: whenever main() meets a start-up error (logging cannot be started, or
\* an exception is raised while the environment is logged or the enabled flag
\* is checked) the process ends with an exit status that is not zero.
C21_StartupErrorExitsNonZero ==
    (pc = "exited" /\ StartupError) => exit_code # 0

\* the positions in os.environ of the variables logged so far
LoggedVariables == 1..(loop_index - 1)
IsSecretName(name) ==
    \E i \in 1..Len(name) :
        /\ i + 5 <= Len(name)
        /\ \A k \in 0..5 : name[i + k] \in {Str_secret[k + 1], <<"S", "E", "C", "R", "E", "T">>[k + 1]}
\* the messages that log_environment_variables has logged so far
VariableMessages == SubSeq(log, Len(log) - (loop_index - 1) + 1, Len(log))

\* C25: log_environment_variables logs one message per environment variable;
\* for a variable whose name contains 'secret' in any letter case the message
\* is made of the name and the length of the value and of nothing else of the
\* value; every other variable is logged with its value.
C25_SecretsNotLogged ==
    pc = "log_environment_variables" =>
        /\ Len(log) >= loop_index - 1
        /\ \A i \in LoggedVariables :
            LET name == env[i][1]
                value == env[i][2]
                message == VariableMessages[i]
            IN  IF IsSecretName(name)
                THEN message = Msg_ENV \o name \o Msg_EqualsSecret \o NatToStr(Len(value))
                ELSE message = Msg_ENV \o name \o Msg_Equals \o value

\* every variable has been logged, one of them a CRUK_SECRET_ one with a value
\* and one a variable that is not secret
C25_Witness ==
    /\ pc = "log_environment_variables"
    /\ loop_index > Len(env)
    /\ \E i \in LoggedVariables :
        /\ StartsWith(env[i][1], <<"C", "R", "U", "K", "_", "S", "E", "C", "R", "E", "T", "_">>)
        /\ Len(env[i][2]) > 1
    /\ \E i \in LoggedVariables : ~IsSecretName(env[i][1]) /\ env[i][2] # <<>>

\* the value that a list or a dict holds at position i
ChildAt(v, i) == v.items[i]

\* the places of a value where a string is, each as the positions that lead to
\* it through the lists and dicts
RECURSIVE StringPaths(_)
StringPaths(v) ==
    CASE v.type = "str" -> {<<>>}
      [] v.type \in {"list", "dict"} ->
            UNION {{<<i>> \o p : p \in StringPaths(ChildAt(v, i))} : i \in DOMAIN v.items}
      [] OTHER -> {}

RECURSIVE ValueAt(_, _)
ValueAt(v, path) == IF path = <<>> THEN v ELSE ValueAt(ChildAt(v, path[1]), Tail(path))

MakeSafeReturned ==
    pc = "returned" /\ frame.function \in {"make_safe_list", "make_safe_dict"}

\* C24: after make_safe_list or make_safe_dict with max_length = -1 every
\* string of the list or dict, at any depth, is what it was; with max_length
\* = n >= 0 a string longer than n has become its first n characters and any
\* other string is what it was.
C24_StringsKeptOrCut ==
    MakeSafeReturned =>
        \A path \in StringPaths(frame.obj) :
            LET before == ValueAt(frame.obj, path).text
                after == ValueAt(obj, path)
            IN  /\ after.type = "str"
                /\ after.text = IF max_length >= 0 /\ Len(before) > max_length
                                 THEN SubSeq(before, 1, max_length)
                                 ELSE before

\* a value that JSON has a notation for: a number, a string, true, false, null,
\* an array of such values, an object with string keys and such values
RECURSIVE CanBeSerialised(_)
CanBeSerialised(v) ==
    \/ v.type \in {"int", "str", "bool", "NoneType"}
    \/ /\ v.type \in {"list", "dict"}
       /\ \A i \in DOMAIN v.items : CanBeSerialised(ChildAt(v, i))

IsSafeJsonReturned == pc = "returned" /\ frame.function = "is_safe_json"

\* C26: is_safe_json returns True for a value that can be serialised to JSON
\* and False for a value that cannot, True for 5 and False for Decimal('5'),
\* it raises nothing and leaves the value as it is.
C26_IsSafeJson ==
    IsSafeJsonReturned =>
        /\ returned = BoolValue(CanBeSerialised(frame.obj))
        /\ frame.obj = IntValue(5) => returned = BoolValue(TRUE)
        /\ frame.obj = DecimalValue(5) => returned = BoolValue(FALSE)
        /\ exception = "none"
        /\ obj = frame.obj

\* is_safe_json has returned False for a list that holds a Decimal two
\* containers down and nothing else that JSON lacks
C26_Witness ==
    /\ IsSafeJsonReturned
    /\ returned = BoolValue(FALSE)
    /\ frame.obj = ListValue(<<DictValue(<< << <<"k">>,
                        ListValue(<<StrValue(<<"a">>), DecimalValue(5)>>) >> >>)>>)

=============================================================================
